---- MODULE Spec2Model ----
(***************************************************************************)
(* Model of the Triton TensorFlow backend (src/src/tensorflow.cc):         *)
(*   - the per-device cache of loaded executables (ModelState::GetModel),  *)
(*   - the BYTES element encoding (SetStringInputTensor /                  *)
(*     SetStringOutputBuffer),                                             *)
(*   - one execution cycle (ModelInstanceState::ProcessRequests),          *)
(*   - the validation of a model against its configuration                 *)
(*     (ValidateTRITONTFModel) and the completion of a SavedModel          *)
(*     configuration (AutoCompleteHelper, ModelState::Create).             *)
(***************************************************************************)
EXTENDS Integers, Sequences, FiniteSets, TLC

(***************************************************************************)
(* Bounds of the model.                                                    *)
(***************************************************************************)
\* number of model instances of the one model
NumInstances == 3
\* largest MAX_SESSION_SHARE_COUNT value offered by the configuration
MaxShare == 3
\* most string elements in one BYTES payload of the codec specification
MaxElems == 2
\* longest string element
MaxStrLen == 2
\* most bytes cut off the end of a serialized payload
MaxDrop == 5
\* most requests in one execution cycle
MaxReq == 2
\* largest leading dimension of a request's input
MaxDim == 2
\* largest max_batch_size of the model configuration
MaxBatch == 2
\* most failures in a cycle that hit a single request (a call made for it
\* fails, its content is malformed)
MaxFaults == 1
\* largest rank of a model tensor and of a configured shape
MaxRank == 2
\* largest default-max-batch-size of the backend's command line
MaxDefault == 4

(***************************************************************************)
(* Program constants.                                                      *)
(***************************************************************************)
NO_GPU_DEVICE == -1
MODEL_DEVICE == -2

\* device ids GetModel is called with: KIND_MODEL, KIND_CPU, GPU 0
Devices == {MODEL_DEVICE, NO_GPU_DEVICE, 0}
Instances == 1..NumInstances

VARIABLES
  \* ---- ModelState ----
  mstate,                     \* "constructed" | "ready" | "failed"
  max_session_share_count_,   \* ModelState::max_session_share_count_
  models_,                    \* ModelState::models_: device -> entry
  loaded,                     \* number of executables CreateModel returned
  loadCalls,                  \* per instance: number of CreateModel calls
  \* ---- ModelInstanceState, one per instance ----
  inst,                       \* [st, dev, model_]
  \* ---- a thread inside GetModel (concurrent specification) ----
  gpc,                        \* position of the instance's thread
  glocal                      \* its locals: the share count it read, lmodel

cacheVars == <<mstate, max_session_share_count_, models_, loaded, loadCalls,
               inst, gpc, glocal>>

VARIABLES
  \* ---- one use of the BYTES codec ----
  sPc,        \* "idle" | "chosen" | "serialized" | "parsed"
  sElems,     \* the strings of the output tensor that is serialized
  sBytes,     \* the serialized buffer / the request's input content
  sCut,       \* TRUE when the content is not the whole serialization
  sCnt,       \* request_element_cnt given to SetStringInputTensor
  sOff,       \* tensor_offset given to SetStringInputTensor
  sResp,      \* *response != nullptr when SetStringInputTensor is entered
  sRes        \* what SetStringInputTensor did: tensor, error, response

strVars == <<sPc, sElems, sBytes, sCut, sCnt, sOff, sResp, sRes>>

VARIABLES
  \* ---- one call of ModelInstanceState::ProcessRequests ----
  pc,                        \* position in the function
  max_batch_size,            \* StateForModel()->MaxBatchSize()
  request_count,
  reqs,                      \* requests[]: [k: shape[0], wants: requested outputs,
                             \*  known once they are read]
  inTypes,                   \* datatype of each input of requests[0]
  nBatchInputs,              \* size of StateForModel()->BatchInputs()
  total_batch_size,
  responses,                 \* responses[]: "none" | "live" | "null"
  sent,                      \* per request: the final responses sent, in order
  released,                  \* per request: number of RequestRelease calls
  tensorNews,                \* number of tensors TRITONTF_TensorNew returned
  input_tensors,             \* the TF input list: [dt, shape, t]
  input_idx,                 \* inputs of requests[0] processed so far
  batch_idx,                 \* batch inputs processed so far
  required_outputs,
  request_required_outputs,
  engineRuns,                \* number of TRITONTF_ModelRun calls
  output_tensors,            \* name -> tensor returned by the run
  out_idx,                   \* outputs distributed so far
  respOut,                   \* per request: the outputs put in its response
  \* ---- what happened in the call ----
  outcome,                   \* how the batch-size phase or the call ended
  faults,                    \* failures that hit single requests so far
  payloadKind                \* per request: the BYTES payload it supplied

cycVars == <<pc, max_batch_size, request_count, reqs, inTypes,
             nBatchInputs, total_batch_size, responses, sent, released,
             tensorNews, input_tensors, input_idx, batch_idx,
             required_outputs, request_required_outputs, engineRuns,
             output_tensors, out_idx, respOut, outcome, faults,
             payloadKind>>

VARIABLES
  \* ---- the backend, the model being loaded and its configuration ----
  cmdline,                    \* default-max-batch-size of the backend's cmdline
  default_max_batch_size_,    \* BackendConfiguration::default_max_batch_size_
  tfModel,                    \* the TRITONTF_Model: platform, inputs, outputs
  config,                     \* BackendModel::ModelConfig()
  repoConfig,                 \* the configuration in the model repository
  auto_complete_config,       \* TRITONBACKEND_ModelAutoCompleteConfig's answer
  lpc,                        \* position of the load of the model
  lErr,                       \* the error the last step of the load returned
  published,                  \* configuration given to ModelSetConfig
  registered                  \* TRITONBACKEND_ModelSetState was called

cfgVars == <<cmdline, default_max_batch_size_, tfModel, config, repoConfig,
             auto_complete_config,
             lpc, lErr, published, registered>>

vars == <<cacheVars, strVars, cycVars, cfgVars>>

(***************************************************************************)
(* The BYTES element encoding: a 4-byte length (the low four bytes of the  *)
(* host-order length, little-endian on the supported targets) followed by  *)
(* the raw bytes, no terminator.                                           *)
(***************************************************************************)
\* byte values the model's strings are made of
Alphabet == {0, 97}
\* a tensor element nothing has been stored into
UNSET == <<-1>>

\* append(reinterpret_cast<const char*>(&len), sizeof(uint32_t))
U32Bytes(len) ==
  <<len % 256, (len \div 256) % 256, (len \div 65536) % 256,
    (len \div 16777216) % 256>>

\* *(reinterpret_cast<const uint32_t*>(content))
ReadU32(content) ==
  content[1] + 256 * content[2] + 65536 * content[3] + 16777216 * content[4]

\* an element serialized with no header when it is empty
SerializeElementSkipEmpty(str) ==
  IF Len(str) > 0 THEN U32Bytes(Len(str)) \o str ELSE <<>>

\* one iteration of the loop of SetStringOutputBuffer
SerializeElement(str) ==
  IF Len(str) > 0 THEN U32Bytes(Len(str)) \o str ELSE U32Bytes(Len(str))

\* the serialization loop of SetStringOutputBuffer over the elements
\* tensor_offset .. tensor_offset + tensor_element_count - 1 (0-based)
RECURSIVE SerializeFrom(_, _, _)
SerializeFrom(elems, tensor_offset, tensor_element_count) ==
  IF tensor_element_count = 0 THEN <<>>
  ELSE SerializeElement(elems[tensor_offset + 1])
         \o SerializeFrom(elems, tensor_offset + 1, tensor_element_count - 1)

\* TRITONTF_TensorSetString: t is [e: the elements, oob: a store went outside]
TensorSetString(t, idx, str) ==
  IF idx < Len(t.e) THEN [t EXCEPT !.e[idx + 1] = str]
  ELSE [t EXCEPT !.oob = TRUE]

RECURSIVE FillStringTensor(_, _, _)
FillStringTensor(t, idx, cnt) ==
  IF cnt = 0 THEN t
  ELSE FillStringTensor(TensorSetString(t, idx, <<>>), idx + 1, cnt - 1)

\* RESPOND_AND_SET_NULL_IF_ERROR that logs the error and sends nothing
RespondAndSetNullSilently(r, err) ==
  [r EXCEPT !.err = err, !.sent = FALSE, !.resp = FALSE]

\* RESPOND_AND_SET_NULL_IF_ERROR(response, err): the error is sent only on a
\* response that is still there, and the response is gone afterwards.
\* r is [t, err, sent, resp].
RespondAndSetNull(r, err) ==
  [r EXCEPT !.err = err, !.sent = r.resp, !.resp = FALSE]

\* the parse loop and the final count test of SetStringInputTensor
RECURSIVE ParseContent(_, _, _, _, _)
ParseContent(r, content, element_idx, request_element_cnt, tensor_offset) ==
  IF Len(content) >= 4
    THEN IF element_idx >= request_element_cnt
      THEN [RespondAndSetNull(r, "unexpected number of string elements")
              EXCEPT !.t = FillStringTensor(r.t, tensor_offset + element_idx,
                                            request_element_cnt - element_idx)]
      ELSE LET len == ReadU32(content)
               remaining == SubSeq(content, 5, Len(content))
           IN IF Len(remaining) < len
                THEN [RespondAndSetNull(r, "incomplete string data")
                        EXCEPT !.t = FillStringTensor(
                                       r.t, tensor_offset + element_idx,
                                       request_element_cnt - element_idx)]
                ELSE ParseContent(
                       [r EXCEPT !.t = TensorSetString(
                                         r.t, tensor_offset + element_idx,
                                         SubSeq(remaining, 1, len))],
                       SubSeq(remaining, len + 1, Len(remaining)),
                       element_idx + 1, request_element_cnt, tensor_offset)
    ELSE IF r.resp /\ element_idx # request_element_cnt
      THEN [RespondAndSetNull(r, "expected strings")
              EXCEPT !.t = FillStringTensor(r.t, tensor_offset + element_idx,
                                            request_element_cnt - element_idx)]
      ELSE r

\* SetStringInputTensor: content_ok is the result of
\* GetContiguousInputContent, resp is *response != nullptr
SetStringInputTensor(t, content_ok, content, request_element_cnt, tensor_offset, resp) ==
  LET r0 == [t |-> t, err |-> "none", sent |-> FALSE, resp |-> resp]
  IN IF ~content_ok
       THEN [RespondAndSetNull(r0, "input content")
               EXCEPT !.t = FillStringTensor(t, tensor_offset,
                                             request_element_cnt)]
       ELSE ParseContent(r0, content, 0, request_element_cnt, tensor_offset)

\* a tensor of n elements as TRITONTF_TensorNew leaves it
NewTensor(n) == [e |-> [k \in 1..n |-> UNSET], oob |-> FALSE]

\* the strings of a tensor: of every length up to MaxStrLen, one of the byte
\* 97 throughout and one that starts with the byte 0
Strings ==
  UNION {{[p \in 1..n |-> 97], [p \in 1..n |-> IF p = 1 THEN 0 ELSE 97]} :
           n \in 0..MaxStrLen}
ElemLists == UNION {[1..m -> Strings] : m \in 0..MaxElems}

InitStr ==
  /\ sPc = "idle"
  /\ sElems = <<>>
  /\ sBytes = <<>>
  /\ sCut = FALSE
  /\ sCnt = 0
  /\ sOff = 0
  /\ sResp = TRUE
  /\ sRes = [t |-> NewTensor(0), err |-> "none", sent |-> FALSE, resp |-> TRUE]

\* the engine produced an output tensor holding the strings elems
StrChoose(elems) ==
  /\ sPc = "idle"
  /\ sElems' = elems
  /\ sPc' = "chosen"
  /\ UNCHANGED <<sBytes, sCut, sCnt, sOff, sResp, sRes>>

\* SetStringOutputBuffer serializes the whole tensor into the response
StrSerialize ==
  /\ sPc = "chosen"
  /\ sBytes' = SerializeFrom(sElems, 0, Len(sElems))
  /\ sPc' = "serialized"
  /\ UNCHANGED <<sElems, sCut, sCnt, sOff, sResp, sRes>>

\* a client sends the buffer with its last d bytes missing
StrTruncate(d) ==
  /\ sPc = "serialized"
  /\ ~sCut
  /\ d <= Len(sBytes)
  /\ sBytes' = SubSeq(sBytes, 1, Len(sBytes) - d)
  /\ sCut' = TRUE
  /\ UNCHANGED <<sPc, sElems, sCnt, sOff, sResp, sRes>>

\* SetStringInputTensor parses the buffer as the input of a request that
\* declares cnt elements, into a tensor with one spare element on each side
\* of the request's span
StrParse(cnt, off, resp) ==
  /\ sPc = "serialized"
  /\ sCnt' = cnt
  /\ sOff' = off
  /\ sResp' = resp
  /\ sRes' = SetStringInputTensor(NewTensor(off + cnt + 1), TRUE, sBytes,
                                  cnt, off, resp)
  /\ sPc' = "parsed"
  /\ UNCHANGED <<sElems, sBytes, sCut>>

NextStr ==
  \/ \E elems \in ElemLists : StrChoose(elems)
  \/ StrSerialize
  \/ \E d \in 1..MaxDrop : StrTruncate(d)
  \/ \E cnt \in 0..(MaxElems + 1), off \in 0..1, resp \in BOOLEAN :
       StrParse(cnt, off, resp)

\* an absent map entry
NoEntry == [present |-> FALSE, first |-> 0, second |-> 0]

InitCache ==
  /\ mstate = "constructed"
  /\ max_session_share_count_ = 1
  /\ models_ = [d \in Devices |-> NoEntry]
  /\ loaded = 0
  /\ loadCalls = [i \in Instances |-> 0]
  /\ inst = [i \in Instances |-> [st |-> "new", dev |-> 0, model_ |-> 0]]
  /\ gpc = [i \in Instances |-> "idle"]
  /\ glocal = [i \in Instances |-> [cnt |-> 0, lmodel |-> 0]]

(***************************************************************************)
(* ModelState::ParseParameters, the MAX_SESSION_SHARE_COUNT part.  The     *)
(* parameter is absent (NOT_FOUND is tolerated), unparsable, or an integer *)
(* that ParseParameter stores before the sign check.                       *)
(***************************************************************************)
ParseParameters ==
  /\ UNCHANGED <<strVars, cycVars, cfgVars>>
  /\ mstate = "constructed"
  /\ \E kind \in {"absent", "unparsable", "int"} : \E v \in -1..MaxShare :
       /\ kind # "int" => v = 1
       /\ IF kind = "absent"
            THEN /\ mstate' = "ready"
                 /\ UNCHANGED max_session_share_count_
            ELSE IF kind = "unparsable"
              THEN /\ mstate' = "failed"
                   /\ UNCHANGED max_session_share_count_
              ELSE /\ max_session_share_count_' = v
                   /\ mstate' = IF v <= 0 THEN "failed" ELSE "ready"
  /\ UNCHANGED <<models_, loaded, loadCalls, inst, gpc, glocal>>

(***************************************************************************)
(* ModelState::GetModel as one sequential call made by                     *)
(* ModelInstanceState::Create for instance i on device dev.  res is the    *)
(* outcome of CreateModel should it be called.                             *)
(***************************************************************************)
\* the test of lines 780-781 letting a full entry be shared once more
CanReuseFull(m, dev, maxc) ==
  m[dev].present /\ m[dev].first <= maxc

\* lines 779-781: an entry for the device with a share count below the
\* maximum
CanReuse(m, dev, maxc) ==
  m[dev].present /\ m[dev].first < maxc

\* GetModel registering the entry before it looks at CreateModel's result
GetModelMapRegisterFirst(m, dev, maxc, res, h) ==
  IF CanReuse(m, dev, maxc)
    THEN [m EXCEPT ![dev].first = @ + 1]
    ELSE [m EXCEPT ![dev] = [present |-> TRUE, first |-> 1, second |-> h]]

\* effect of GetModel on models_
GetModelMap(m, dev, maxc, res, h) ==
  IF CanReuse(m, dev, maxc)
    THEN [m EXCEPT ![dev].first = @ + 1]
    ELSE IF res = "ok"
      THEN [m EXCEPT ![dev] = [present |-> TRUE, first |-> 1, second |-> h]]
      ELSE m

CreateResults == {"ok", "load_error", "validate_error"}

InstanceCreateCache(i, dev, res) ==
  /\ mstate = "ready"
  /\ inst[i].st = "new"
  /\ gpc[i] = "idle"
  /\ LET reuse == CanReuse(models_, dev, max_session_share_count_)
         h == loaded + 1
     IN /\ models_' = GetModelMap(models_, dev, max_session_share_count_, res, h)
        /\ IF reuse
             THEN /\ inst' = [inst EXCEPT ![i] = [st |-> "ok", dev |-> dev,
                                                  model_ |-> models_[dev].second]]
                  /\ UNCHANGED <<loaded, loadCalls>>
             ELSE /\ loadCalls' = [loadCalls EXCEPT ![i] = @ + 1]
                  /\ IF res = "ok"
                       THEN /\ loaded' = h
                            /\ inst' = [inst EXCEPT ![i] = [st |-> "ok", dev |-> dev,
                                                            model_ |-> h]]
                       ELSE /\ UNCHANGED loaded
                            /\ inst' = [inst EXCEPT ![i] = [st |-> "err", dev |-> dev,
                                                            model_ |-> 0]]
  /\ UNCHANGED <<mstate, max_session_share_count_, gpc, glocal>>

InstanceCreate(i, dev, res) ==
  /\ UNCHANGED <<strVars, cycVars, cfgVars>>
  /\ InstanceCreateCache(i, dev, res)

(***************************************************************************)
(* ModelState::GetModel executed by the threads of several instances with  *)
(* no synchronisation (the function takes no lock): each statement is one  *)
(* step.  The unsynchronised accesses to models_ are a data race; the      *)
(* steps below are the outcomes in which every access reads or writes a    *)
(* whole value.                                                            *)
(***************************************************************************)
\* lines 779-781: find() and the share-count test
GetModelFind(i, dev) ==
  /\ UNCHANGED <<strVars, cycVars, cfgVars>>
  /\ mstate = "ready"
  /\ inst[i].st = "new"
  /\ gpc[i] = "idle"
  /\ inst' = [inst EXCEPT ![i].dev = dev]
  /\ gpc' = [gpc EXCEPT ![i] =
               IF CanReuse(models_, dev, max_session_share_count_)
                 THEN "reuse" ELSE "create"]
  /\ UNCHANGED <<mstate, max_session_share_count_, models_, loaded,
                 loadCalls, glocal>>

\* line 782 and the read half of line 783
GetModelCopy(i) ==
  /\ UNCHANGED <<strVars, cycVars, cfgVars>>
  /\ gpc[i] = "reuse"
  /\ glocal' = [glocal EXCEPT ![i] = [cnt |-> models_[inst[i].dev].first,
                                      lmodel |-> models_[inst[i].dev].second]]
  /\ gpc' = [gpc EXCEPT ![i] = "inc"]
  /\ UNCHANGED <<mstate, max_session_share_count_, models_, loaded,
                 loadCalls, inst>>

\* the write half of line 783, and the return of line 784
GetModelIncrement(i) ==
  /\ UNCHANGED <<strVars, cycVars, cfgVars>>
  /\ gpc[i] = "inc"
  /\ models_' = [models_ EXCEPT ![inst[i].dev].first = glocal[i].cnt + 1]
  /\ inst' = [inst EXCEPT ![i].st = "ok", ![i].model_ = glocal[i].lmodel]
  /\ gpc' = [gpc EXCEPT ![i] = "idle"]
  /\ UNCHANGED <<mstate, max_session_share_count_, loaded, loadCalls, glocal>>

\* line 787: CreateModel
GetModelCreate(i, res) ==
  /\ UNCHANGED <<strVars, cycVars, cfgVars>>
  /\ gpc[i] = "create"
  /\ loadCalls' = [loadCalls EXCEPT ![i] = @ + 1]
  /\ IF res = "ok"
       THEN /\ loaded' = loaded + 1
            /\ glocal' = [glocal EXCEPT ![i].lmodel = loaded + 1]
            /\ gpc' = [gpc EXCEPT ![i] = "register"]
            /\ UNCHANGED inst
       ELSE /\ inst' = [inst EXCEPT ![i].st = "err"]
            /\ gpc' = [gpc EXCEPT ![i] = "idle"]
            /\ UNCHANGED <<loaded, glocal>>
  /\ UNCHANGED <<mstate, max_session_share_count_, models_>>

\* lines 788-789: registration of the new entry
GetModelRegister(i) ==
  /\ UNCHANGED <<strVars, cycVars, cfgVars>>
  /\ gpc[i] = "register"
  /\ models_' = [models_ EXCEPT ![inst[i].dev] =
                   [present |-> TRUE, first |-> 1, second |-> glocal[i].lmodel]]
  /\ inst' = [inst EXCEPT ![i].st = "ok", ![i].model_ = glocal[i].lmodel]
  /\ gpc' = [gpc EXCEPT ![i] = "idle"]
  /\ UNCHANGED <<mstate, max_session_share_count_, loaded, loadCalls, glocal>>

(***************************************************************************)
(* ModelInstanceState::ProcessRequests: one execution cycle.               *)
(***************************************************************************)
\* the model of the cycle: output OUT0 is a BYTES tensor, OUT1 is not
OutputNames == {"OUT0", "OUT1"}
\* the inputs carried by requests[0], in index order
InTypeChoices == {<<"FP32">>, <<"BYTES", "FP32">>}
\* dimensions of every input after the leading one
Rest == <<2>>
\* the outputs a request asks for: OUT1 alone, or both
WantChoices == {{"OUT1"}, {"OUT0", "OUT1"}}
\* BYTES contents a request can supply for its declared element count
PayloadKinds == {"good", "trunc_header", "trunc_body", "extra", "fewer",
                 "stray", "unreadable"}

\* the call that fails for a request: TRITONBACKEND_ResponseOutput, or
\* TRITONBACKEND_OutputBuffer / CopyBuffer in SetStringOutputBuffer
OutputFaults == {"none", "response_output", "output_buffer"}

Reqs == 1..request_count

RECURSIVE GetElementCount(_)
GetElementCount(shape) ==
  IF shape = <<>> THEN 1 ELSE Head(shape) * GetElementCount(Tail(shape))

\* shape of every input of request i
ReqShape(i) == <<reqs[i].k>> \o Rest

\* string element e (1-based) of the BYTES input of request i
ElemStr(i, e) == IF e % 2 = 1 THEN <<i>> ELSE <<i, e>>
ReqElems(i, cnt) == [e \in 1..cnt |-> ElemStr(i, e)]

\* the input content of request i declaring cnt elements
Payload(i, cnt, kind) ==
  LET good == SerializeFrom(ReqElems(i, cnt), 0, cnt)
  IN CASE kind = "good" -> good
       [] kind = "unreadable" -> good
       [] kind = "trunc_header" ->
            SerializeFrom(ReqElems(i, cnt), 0, cnt - 1) \o <<1, 0>>
       [] kind = "trunc_body" -> SubSeq(good, 1, Len(good) - 1)
       [] kind = "fewer" -> SerializeFrom(ReqElems(i, cnt), 0, cnt - 1)
       [] kind = "extra" -> good \o SerializeElement(<<i>>)
       [] kind = "stray" -> good \o <<1, 0>>

\* kinds that take away from the declared elements need one to exist
KindFits(kind, cnt) ==
  kind \in {"trunc_header", "trunc_body", "fewer"} => cnt >= 1

\* the sequences whose i-th element is taken from S[i]: one choice per
\* request
RECURSIVE SeqProduct(_)
SeqProduct(S) ==
  IF S = <<>> THEN {<<>>}
  ELSE {Append(p, x) : p \in SeqProduct(SubSeq(S, 1, Len(S) - 1)),
                       x \in S[Len(S)]}

\* the contents request i can supply
KindChoices(i) ==
  {kind \in PayloadKinds : KindFits(kind, GetElementCount(ReqShape(i)))}

\* the outputs request i asks for and the names read from it: both are
\* looked at only when its response is still there
WantGotChoices(i) ==
  IF responses[i] = "live"
    THEN {c \in WantChoices \X (SUBSET OutputNames) : c[2] \subseteq c[1]}
    ELSE {<<{}, {}>>}

\* the calls that can fail while the output at out_idx is handed to
\* request i
OutputFaultChoices(i) ==
  IF /\ responses[i] = "live"
     /\ output_tensors[out_idx + 1].name \in request_required_outputs[i]
    THEN OutputFaults ELSE {"none"}

InitCyc ==
  /\ pc = "idle"
  /\ max_batch_size = 0
  /\ request_count = 0
  /\ reqs = <<>>
  /\ inTypes = <<>>
  /\ nBatchInputs = 0
  /\ total_batch_size = 0
  /\ responses = <<>>
  /\ sent = <<>>
  /\ released = <<>>
  /\ tensorNews = 0
  /\ input_tensors = <<>>
  /\ input_idx = 0
  /\ batch_idx = 0
  /\ required_outputs = {}
  /\ request_required_outputs = <<>>
  /\ engineRuns = 0
  /\ output_tensors = <<>>
  /\ out_idx = 0
  /\ respOut = <<>>
  /\ outcome = "none"
  /\ faults = 0
  /\ payloadKind = <<>>

\* TRITONBACKEND_ModelInstanceExecute hands a cycle to ProcessRequests
Call(mbs, n, ks, types, nb) ==
  /\ pc = "idle"
  /\ pc' = "batch_size"
  /\ max_batch_size' = mbs
  /\ request_count' = n
  /\ reqs' = [i \in 1..n |-> [k |-> ks[i], wants |-> {}]]
  /\ inTypes' = types
  /\ nBatchInputs' = nb
  /\ responses' = [i \in 1..n |-> "none"]
  /\ sent' = [i \in 1..n |-> <<>>]
  /\ released' = [i \in 1..n |-> 0]
  /\ request_required_outputs' = [i \in 1..n |-> {}]
  /\ respOut' = [i \in 1..n |-> {}]
  /\ payloadKind' = [i \in 1..n |-> "good"]
  /\ UNCHANGED <<total_batch_size, tensorNews, input_tensors, input_idx,
                 batch_idx, required_outputs, engineRuns, output_tensors,
                 out_idx, outcome, faults>>
  /\ UNCHANGED <<cacheVars, strVars, cfgVars>>

\* an error sent on responses[i] that leaves the pointer in place
RespondIfLiveKeepResponse(st, i, err) ==
  IF st.responses[i] = "live"
    THEN [responses |-> st.responses,
          sent |-> [st.sent EXCEPT ![i] = Append(@, err)]]
    ELSE st

\* RESPOND_AND_SET_NULL_IF_ERROR on responses[i]; st is [responses, sent]
RespondIfLive(st, i, err) ==
  IF st.responses[i] = "live"
    THEN [responses |-> [st.responses EXCEPT ![i] = "null"],
          sent |-> [st.sent EXCEPT ![i] = Append(@, err)]]
    ELSE st

RECURSIVE RespondSet(_, _, _)
RespondSet(st, S, err) ==
  IF S = {} THEN st
  ELSE LET i == CHOOSE x \in S : TRUE
       IN RespondSet(RespondIfLive(st, i, err), S \ {i}, err)

\* the loop of lines 1683-1717: the sum of the leading dimensions
RECURSIVE SumLeading(_, _)
SumLeading(rq, n) == IF n = 0 THEN 0 ELSE rq[n].k + SumLeading(rq, n - 1)

TotalBatchSize(mbs, rq, n) == IF mbs > 0 THEN SumLeading(rq, n) ELSE n

\* the test of line 1731 without the exemption of a total of one
BatchSizeExceededNoExemption(total, mbs) == total > mbs

\* the test of line 1731
BatchSizeExceeded(total, mbs) == (total # 1) /\ (total > mbs)

\* RequestsRespondWithError: an error response for, and the release of,
\* every request; nothing can be done for a request that is null
RespondAllSent(err, nullAt) ==
  [i \in Reqs |-> IF i = nullAt THEN <<>> ELSE <<err>>]
RespondAllReleased(nullAt) ==
  [i \in Reqs |-> IF i = nullAt THEN 0 ELSE 1]

\* lines 1679-1741.  bad names the request, if any, that is null or whose
\* first input cannot be read.
ComputeBatchSize(bad) ==
  /\ pc = "batch_size"
  /\ bad.kind = "none" => bad.at = 0
  /\ bad.kind # "none" => bad.at \in Reqs
  /\ bad.kind = "input_error" => max_batch_size > 0
  /\ LET total == TotalBatchSize(max_batch_size, reqs, request_count)
     IN IF bad.kind = "null"
          THEN /\ sent' = RespondAllSent("null request", bad.at)
               /\ released' = RespondAllReleased(bad.at)
               /\ outcome' = "null_request"
               /\ pc' = "returned"
               /\ UNCHANGED total_batch_size
          ELSE IF bad.kind = "input_error"
          THEN /\ sent' = RespondAllSent("input error", 0)
               /\ released' = RespondAllReleased(0)
               /\ outcome' = "input_error"
               /\ pc' = "returned"
               /\ UNCHANGED total_batch_size
          ELSE /\ total_batch_size' = total
               /\ IF total = 0
                    THEN /\ outcome' = "empty"
                         /\ pc' = "returned"
                         /\ UNCHANGED <<sent, released>>
                    ELSE IF BatchSizeExceeded(total, max_batch_size)
                    THEN /\ sent' = RespondAllSent("batch size", 0)
                         /\ released' = RespondAllReleased(0)
                         /\ outcome' = "exceeded"
                         /\ pc' = "returned"
                    ELSE /\ outcome' = "accepted"
                         /\ pc' = "responses"
                         /\ UNCHANGED <<sent, released>>
  /\ UNCHANGED <<max_batch_size, request_count, reqs, inTypes,
                 nBatchInputs, responses, tensorNews, input_tensors,
                 input_idx, batch_idx, required_outputs,
                 request_required_outputs, engineRuns, output_tensors,
                 out_idx, respOut, faults, payloadKind>>
  /\ UNCHANGED <<cacheVars, strVars, cfgVars>>

\* lines 1754-1767: a response per request; ResponseNew fails for fail
CreateResponses(fail) ==
  /\ pc = "responses"
  /\ fail \subseteq Reqs
  /\ faults + Cardinality(fail) <= MaxFaults
  /\ responses' = [i \in Reqs |-> IF i \in fail THEN "null" ELSE "live"]
  /\ faults' = faults + Cardinality(fail)
  /\ pc' = "inputs"
  /\ UNCHANGED <<max_batch_size, request_count, reqs, inTypes,
                 nBatchInputs, total_batch_size, sent, released, tensorNews,
                 input_tensors, input_idx, batch_idx, required_outputs,
                 request_required_outputs, engineRuns, output_tensors,
                 out_idx, respOut, outcome, payloadKind>>
  /\ UNCHANGED <<cacheVars, strVars, cfgVars>>

\* batchn_shape of lines 1829-1835 with the leading dimension set to the
\* number of requests
BatchnShapeRequestCount(shape, mbs, total, n) ==
  IF mbs # 0 THEN <<total>> \o Tail(shape) ELSE <<n>> \o Tail(shape)

\* batchn_shape of lines 1829-1835 for an input that is not ragged
BatchnShape(shape, mbs, total, n) ==
  IF mbs # 0 THEN <<total>> \o Tail(shape) ELSE shape

\* the error sent for every request, whatever became of its response
SendRemainingToAll(s, resp, err) ==
  [i \in Reqs |-> Append(s[i], err)]

\* "Send remaining responses and returned": lines 1861-1875, 1959-1973 and
\* 2082-2096.  The error goes to the responses that are still there and
\* every request is released.
SendRemaining(s, resp, err) ==
  [i \in Reqs |-> IF resp[i] = "live" THEN Append(s[i], err) ELSE s[i]]

WholeCycleError(err) ==
  /\ sent' = SendRemaining(sent, responses, err)
  /\ released' = [i \in Reqs |-> released[i] + 1]
  /\ outcome' = err
  /\ pc' = "returned"
  /\ UNCHANGED responses

\* lines 1799-1876: TRITONTF_TensorNew returns nullptr for the next input
ProcessInputAllocFail ==
  /\ pc = "inputs"
  /\ input_idx < Len(inTypes)
  /\ WholeCycleError("alloc")
  /\ UNCHANGED <<max_batch_size, request_count, reqs, inTypes,
                 nBatchInputs, total_batch_size, tensorNews, input_tensors,
                 input_idx, batch_idx, required_outputs,
                 request_required_outputs, engineRuns, output_tensors,
                 out_idx, respOut, faults, payloadKind>>
  /\ UNCHANGED <<cacheVars, strVars, cfgVars>>

\* name of the input of index idx (1-based) of requests[0]
InputName(idx) == <<"IN0", "IN1">>[idx]

\* StateForModel()->IsInputRagged(name): the input's configuration entry
\* has allow_ragged_batch
IsInputRagged(name) ==
  \E i \in DOMAIN config.input :
    config.input[i].name = name /\ config.input[i].allow_ragged_batch

\* the loop of lines 1887-1908 from request idx on; acc is [t, st, off]
RECURSIVE StringInputLoop(_, _, _)
StringInputLoop(idx, acc, kinds) ==
  IF idx > request_count THEN acc
  ELSE LET batch_element_cnt == GetElementCount(ReqShape(idx))
           r == SetStringInputTensor(
                  acc.t, kinds[idx] # "unreadable",
                  Payload(idx, batch_element_cnt, kinds[idx]),
                  batch_element_cnt, acc.off,
                  acc.st.responses[idx] = "live")
       IN StringInputLoop(
            idx + 1,
            [t |-> r.t,
             st |-> IF r.sent THEN RespondIfLive(acc.st, idx, r.err)
                    ELSE acc.st,
             off |-> acc.off + batch_element_cnt],
            kinds)

NextPcAfterInput == IF input_idx + 1 = Len(inTypes) THEN "batch_inputs" ELSE "inputs"

\* lines 1799-1909 for a BYTES input: the tensor is created and every
\* request's content is parsed into it
ProcessBytesInput(kinds) ==
  /\ pc = "inputs"
  /\ input_idx < Len(inTypes)
  /\ ~IsInputRagged(InputName(input_idx + 1))
  /\ inTypes[input_idx + 1] = "BYTES"
  /\ \A i \in Reqs : KindFits(kinds[i], GetElementCount(ReqShape(i)))
  /\ faults + Cardinality({i \in Reqs : kinds[i] # "good"}) <= MaxFaults
  /\ LET batchn_shape == BatchnShape(ReqShape(1), max_batch_size,
                                     total_batch_size, request_count)
         acc == StringInputLoop(
                  1, [t |-> NewTensor(GetElementCount(batchn_shape)),
                      st |-> [responses |-> responses, sent |-> sent],
                      off |-> 0], kinds)
     IN /\ input_tensors' = Append(input_tensors,
                                   [dt |-> "BYTES", shape |-> batchn_shape,
                                    t |-> acc.t])
        /\ responses' = acc.st.responses
        /\ sent' = acc.st.sent
  /\ tensorNews' = tensorNews + 1
  /\ payloadKind' = kinds
  /\ faults' = faults + Cardinality({i \in Reqs : kinds[i] # "good"})
  /\ input_idx' = input_idx + 1
  /\ pc' = NextPcAfterInput
  /\ UNCHANGED <<max_batch_size, request_count, reqs, inTypes,
                 nBatchInputs, total_batch_size, released, batch_idx,
                 required_outputs, request_required_outputs, engineRuns,
                 output_tensors, out_idx, respOut, outcome>>
  /\ UNCHANGED <<cacheVars, strVars, cfgVars>>

\* lines 1799-1882 and 1911-1918 for an input of another datatype: the
\* tensor is created and BackendInputCollector::ProcessTensor gathers the
\* requests' buffers, failing the responses of the requests in fail
ProcessOtherInput(fail) ==
  /\ pc = "inputs"
  /\ input_idx < Len(inTypes)
  /\ ~IsInputRagged(InputName(input_idx + 1))
  /\ inTypes[input_idx + 1] # "BYTES"
  /\ fail \subseteq {i \in Reqs : responses[i] = "live"}
  /\ faults + Cardinality(fail) <= MaxFaults
  /\ LET batchn_shape == BatchnShape(ReqShape(1), max_batch_size,
                                     total_batch_size, request_count)
         st == RespondSet([responses |-> responses, sent |-> sent], fail,
                          "collector")
     IN /\ input_tensors' = Append(input_tensors,
                                   [dt |-> inTypes[input_idx + 1],
                                    shape |-> batchn_shape,
                                    t |-> NewTensor(0)])
        /\ responses' = st.responses
        /\ sent' = st.sent
  /\ tensorNews' = tensorNews + 1
  /\ faults' = faults + Cardinality(fail)
  /\ input_idx' = input_idx + 1
  /\ pc' = NextPcAfterInput
  /\ UNCHANGED <<max_batch_size, request_count, reqs, inTypes,
                 nBatchInputs, total_batch_size, released, batch_idx,
                 required_outputs, request_required_outputs, engineRuns,
                 output_tensors, out_idx, respOut, outcome, payloadKind>>
  /\ UNCHANGED <<cacheVars, strVars, cfgVars>>

\* what GetElementCount can return for the shape and dims_count that no
\* call has set
UninitCounts == {0, 1, 5}

\* the loop of lines 1814-1827 from request idx on.  acc is [st, total];
\* TRITONBACKEND_RequestInput fails for the requests in missing, which
\* leaves input, shape and dims_count of that iteration unset for the
\* calls of lines 1821-1826: junk is the element count they give.
RECURSIVE RaggedShapeLoop(_, _, _, _)
RaggedShapeLoop(idx, acc, missing, junk) ==
  IF idx > request_count THEN acc
  ELSE RaggedShapeLoop(
         idx + 1,
         [st |-> IF idx \in missing
                   THEN RespondIfLive(acc.st, idx, "request_input")
                   ELSE acc.st,
          total |-> acc.total + (IF idx \in missing THEN junk
                                 ELSE GetElementCount(ReqShape(idx)))],
         missing, junk)

\* lines 1799-1882 and 1911-1918 for a ragged input of a datatype other
\* than BYTES: the shape is the flattened shape of the whole batch.  ub
\* tells what the calls on the unset input of a request in missing do:
\* return, or bring the process down.
ProcessRaggedInput(missing, junk, ub, fail) ==
  /\ pc = "inputs"
  /\ input_idx < Len(inTypes)
  /\ inTypes[input_idx + 1] # "BYTES"
  /\ IsInputRagged(InputName(input_idx + 1))
  /\ missing = {} => junk = 0 /\ ub = "benign"
  /\ LET acc == RaggedShapeLoop(
                  1, [st |-> [responses |-> responses, sent |-> sent],
                      total |-> 0], missing, junk)
         st == RespondSet(acc.st, fail, "collector")
     IN /\ fail \subseteq {i \in Reqs : acc.st.responses[i] = "live"}
        /\ faults + Cardinality(missing) + Cardinality(fail) <= MaxFaults
        /\ faults' = faults + Cardinality(missing) + Cardinality(fail)
        /\ IF ub = "crash"
             THEN /\ pc' = "crashed"
                  /\ responses' = acc.st.responses
                  /\ sent' = acc.st.sent
                  /\ UNCHANGED <<input_tensors, tensorNews, input_idx>>
             ELSE /\ input_tensors' = Append(input_tensors,
                                        [dt |-> inTypes[input_idx + 1],
                                         shape |-> <<acc.total>>,
                                         t |-> NewTensor(0)])
                  /\ responses' = st.responses
                  /\ sent' = st.sent
                  /\ tensorNews' = tensorNews + 1
                  /\ input_idx' = input_idx + 1
                  /\ pc' = NextPcAfterInput
  /\ payloadKind' = [i \in Reqs |-> IF i \in missing THEN "missing" ELSE "good"]
  /\ UNCHANGED <<max_batch_size, request_count, reqs, inTypes,
                 nBatchInputs, total_batch_size, released, batch_idx,
                 required_outputs, request_required_outputs, engineRuns,
                 output_tensors, out_idx, respOut, outcome>>
  /\ UNCHANGED <<cacheVars, strVars, cfgVars>>

\* lines 1929-1974: TRITONTF_TensorNew returns nullptr for a batch input
BatchInputAllocFail ==
  /\ pc = "batch_inputs"
  /\ batch_idx < nBatchInputs
  /\ WholeCycleError("alloc")
  /\ UNCHANGED <<max_batch_size, request_count, reqs, inTypes,
                 nBatchInputs, total_batch_size, tensorNews, input_tensors,
                 input_idx, batch_idx, required_outputs,
                 request_required_outputs, engineRuns, output_tensors,
                 out_idx, respOut, faults, payloadKind>>
  /\ UNCHANGED <<cacheVars, strVars, cfgVars>>

\* lines 1929-2006: the tensor of a batch input is created and filled by
\* BackendInputCollector::ProcessBatchInput; when that fails
\* RESPOND_ALL_AND_SET_NULL_IF_ERROR fails every remaining response
ProcessBatchInput(ok) ==
  /\ pc = "batch_inputs"
  /\ batch_idx < nBatchInputs
  /\ ~ok => faults < MaxFaults
  /\ LET st == IF ok THEN [responses |-> responses, sent |-> sent]
               ELSE RespondSet([responses |-> responses, sent |-> sent],
                               Reqs, "batch_input")
     IN /\ responses' = st.responses
        /\ sent' = st.sent
  /\ input_tensors' = Append(input_tensors,
                             [dt |-> "BATCH", shape |-> <<request_count>>,
                              t |-> NewTensor(0)])
  /\ tensorNews' = tensorNews + 1
  /\ faults' = IF ok THEN faults ELSE faults + 1
  /\ batch_idx' = batch_idx + 1
  /\ UNCHANGED <<pc, max_batch_size, request_count, reqs, inTypes,
                 nBatchInputs, total_batch_size, released, input_idx,
                 required_outputs, request_required_outputs, engineRuns,
                 output_tensors, out_idx, respOut, outcome,
                 payloadKind>>
  /\ UNCHANGED <<cacheVars, strVars, cfgVars>>

\* lines 2009-2055: after collector.Finalize() the names of the requested
\* outputs are read from the requests whose response is still there.
\* ws[i] are the outputs request i asks for, got[i] the names read from it
\* before a call failed: all of them when none failed.
CollectRequiredOutputs(ws, got) ==
  /\ pc = "batch_inputs"
  /\ batch_idx = nBatchInputs
  /\ \A i \in Reqs : <<ws[i], got[i]>> \in WantGotChoices(i)
  /\ LET fail == {i \in Reqs : responses[i] = "live" /\ got[i] # ws[i]}
         st == RespondSet([responses |-> responses, sent |-> sent], fail,
                          "request_output")
     IN /\ faults + Cardinality(fail) <= MaxFaults
        /\ faults' = faults + Cardinality(fail)
        /\ responses' = st.responses
        /\ sent' = st.sent
  /\ reqs' = [i \in Reqs |-> [reqs[i] EXCEPT !.wants = ws[i]]]
  /\ required_outputs' = UNION {got[i] : i \in Reqs}
  /\ request_required_outputs' = got
  /\ pc' = "run"
  /\ UNCHANGED <<max_batch_size, request_count, inTypes,
                 nBatchInputs, total_batch_size, released, tensorNews,
                 input_tensors, input_idx, batch_idx, engineRuns,
                 output_tensors, out_idx, respOut, outcome, payloadKind>>
  /\ UNCHANGED <<cacheVars, strVars, cfgVars>>

\* model_output_names: the required outputs in the order of std::set
ModelOutputNames(S) ==
  (IF "OUT0" \in S THEN <<"OUT0">> ELSE <<>>)
    \o (IF "OUT1" \in S THEN <<"OUT1">> ELSE <<>>)

\* the tensor the engine returns for an output: one row per row of the
\* batch, string element p holding the byte 100 + p
EngineOutput(name) ==
  LET shape == BatchnShape(ReqShape(1), max_batch_size, total_batch_size,
                           request_count)
  IN [name |-> name,
      dt |-> IF name = "OUT0" THEN "BYTES" ELSE "FP32",
      shape |-> shape,
      e |-> [q \in 1..GetElementCount(shape) |-> <<100 + q>>]]

\* a run that is left out when no output is required
ModelRunUnlessNoOutputs(ok) ==
  /\ pc = "run"
  /\ IF required_outputs = {}
       THEN /\ pc' = "send"
            /\ UNCHANGED <<engineRuns, output_tensors, sent, released, outcome,
                           responses>>
       ELSE /\ engineRuns' = engineRuns + 1
            /\ IF ok
                 THEN /\ output_tensors' =
                           [j \in 1..Len(ModelOutputNames(required_outputs)) |->
                              EngineOutput(ModelOutputNames(required_outputs)[j])]
                      /\ pc' = "outputs"
                      /\ UNCHANGED <<sent, released, outcome, responses>>
                 ELSE /\ WholeCycleError("engine")
                      /\ UNCHANGED output_tensors
  /\ UNCHANGED <<max_batch_size, request_count, reqs, inTypes,
                 nBatchInputs, total_batch_size, tensorNews, input_tensors,
                 input_idx, batch_idx, required_outputs,
                 request_required_outputs, out_idx, respOut, faults,
                 payloadKind>>
  /\ UNCHANGED <<cacheVars, strVars, cfgVars>>

\* lines 2067-2100: TRITONTF_ModelRun
ModelRun(ok) ==
  /\ pc = "run"
  /\ engineRuns' = engineRuns + 1
  /\ IF ok
       THEN /\ output_tensors' =
                 [j \in 1..Len(ModelOutputNames(required_outputs)) |->
                    EngineOutput(ModelOutputNames(required_outputs)[j])]
            /\ pc' = IF required_outputs = {} THEN "send" ELSE "outputs"
            /\ UNCHANGED <<sent, released, outcome, responses>>
       ELSE /\ WholeCycleError("engine")
            /\ UNCHANGED output_tensors
  /\ UNCHANGED <<max_batch_size, request_count, reqs, inTypes,
                 nBatchInputs, total_batch_size, tensorNews, input_tensors,
                 input_idx, batch_idx, required_outputs,
                 request_required_outputs, out_idx, respOut, faults,
                 payloadKind>>
  /\ UNCHANGED <<cacheVars, strVars, cfgVars>>

\* shape of the response output of request idx: lines 2145-2153
ResponseShape(tshape, idx) ==
  IF max_batch_size # 0 THEN <<reqs[idx].k>> \o Tail(tshape) ELSE tshape

\* the loop of lines 2141-2174 with the offset advanced only past the
\* requests that are given the output
RECURSIVE StringOutputLoopPacked(_, _, _, _)
StringOutputLoopPacked(idx, acc, ot, fm) ==
  IF idx > request_count THEN acc
  ELSE LET batchn_shape == ResponseShape(ot.shape, idx)
           tensor_element_cnt == GetElementCount(batchn_shape)
           wanted == /\ acc.st.responses[idx] = "live"
                     /\ ot.name \in request_required_outputs[idx]
           failed == wanted /\ fm[idx] # "none"
       IN StringOutputLoopPacked(
            idx + 1,
            [st |-> IF failed THEN RespondIfLive(acc.st, idx, fm[idx])
                    ELSE acc.st,
             out |-> IF wanted /\ ~failed
                       THEN [acc.out EXCEPT ![idx] = @ \cup
                              {[name |-> ot.name, shape |-> batchn_shape,
                                data |-> SerializeFrom(ot.e, acc.off,
                                                       tensor_element_cnt)]}]
                       ELSE acc.out,
             off |-> IF wanted THEN acc.off + tensor_element_cnt
                     ELSE acc.off],
            ot, fm)

\* the loop of lines 2141-2174 from request idx on.  acc is
\* [st, out, off]; fm[idx] is the call that fails for request idx.
RECURSIVE StringOutputLoop(_, _, _, _)
StringOutputLoop(idx, acc, ot, fm) ==
  IF idx > request_count THEN acc
  ELSE LET batchn_shape == ResponseShape(ot.shape, idx)
           tensor_element_cnt == GetElementCount(batchn_shape)
           wanted == /\ acc.st.responses[idx] = "live"
                     /\ ot.name \in request_required_outputs[idx]
           failed == wanted /\ fm[idx] # "none"
       IN StringOutputLoop(
            idx + 1,
            [st |-> IF failed THEN RespondIfLive(acc.st, idx, fm[idx])
                    ELSE acc.st,
             out |-> IF wanted /\ ~failed
                       THEN [acc.out EXCEPT ![idx] = @ \cup
                              {[name |-> ot.name, shape |-> batchn_shape,
                                data |-> SerializeFrom(ot.e, acc.off,
                                                       tensor_element_cnt)]}]
                       ELSE acc.out,
             off |-> acc.off + tensor_element_cnt],
            ot, fm)

NextPcAfterOutput == IF out_idx + 1 = Len(output_tensors) THEN "send" ELSE "outputs"

\* lines 2117-2175 and 2194-2205 for a BYTES output.  When
\* TRITONBACKEND_ResponseOutput fails, SetStringOutputBuffer is still
\* called, with a response_output that was never set: ub is what that call
\* does, fail without effect or bring the process down.
ProcessBytesOutput(fm, ub) ==
  /\ pc = "outputs"
  /\ out_idx < Len(output_tensors)
  /\ output_tensors[out_idx + 1].dt = "BYTES"
  /\ LET ot == output_tensors[out_idx + 1]
         hit == {i \in Reqs : /\ responses[i] = "live"
                              /\ ot.name \in request_required_outputs[i]
                              /\ fm[i] # "none"}
         acc == StringOutputLoop(
                  1, [st |-> [responses |-> responses, sent |-> sent],
                      out |-> respOut, off |-> 0], ot, fm)
     IN /\ \A i \in Reqs : fm[i] # "none" => i \in hit
        /\ faults + Cardinality(hit) <= MaxFaults
        /\ faults' = faults + Cardinality(hit)
        /\ ub = "crash" => \E i \in hit : fm[i] = "response_output"
        /\ responses' = acc.st.responses
        /\ sent' = acc.st.sent
        /\ respOut' = acc.out
  /\ out_idx' = out_idx + 1
  /\ pc' = IF ub = "crash" THEN "crashed" ELSE NextPcAfterOutput
  /\ UNCHANGED <<max_batch_size, request_count, reqs, inTypes,
                 nBatchInputs, total_batch_size, released, tensorNews,
                 input_tensors, input_idx, batch_idx, required_outputs,
                 request_required_outputs, engineRuns, output_tensors,
                 outcome, payloadKind>>
  /\ UNCHANGED <<cacheVars, strVars, cfgVars>>

\* offset of request idx in a batched output: the rows of the requests
\* before it
RECURSIVE RowOffset(_)
RowOffset(idx) == IF idx = 1 THEN 0 ELSE RowOffset(idx - 1) + reqs[idx - 1].k

\* lines 2176-2184 and 2194-2205 for an output of another datatype:
\* BackendOutputResponder::ProcessTensor puts each remaining request's rows
\* in its response, failing the responses of the requests in fail
ProcessOtherOutput(fail) ==
  /\ pc = "outputs"
  /\ out_idx < Len(output_tensors)
  /\ output_tensors[out_idx + 1].dt # "BYTES"
  /\ LET ot == output_tensors[out_idx + 1]
         wanted == {i \in Reqs : /\ responses[i] = "live"
                                 /\ ot.name \in request_required_outputs[i]}
         st == RespondSet([responses |-> responses, sent |-> sent], fail,
                          "responder")
     IN /\ fail \subseteq wanted
        /\ faults + Cardinality(fail) <= MaxFaults
        /\ faults' = faults + Cardinality(fail)
        /\ responses' = st.responses
        /\ sent' = st.sent
        /\ respOut' = [i \in Reqs |->
             IF i \in wanted \ fail
               THEN respOut[i] \cup
                      {[name |-> ot.name, shape |-> ResponseShape(ot.shape, i),
                        data |-> IF max_batch_size # 0
                                   THEN <<RowOffset(i), reqs[i].k>>
                                   ELSE <<0, Head(ot.shape)>>]}
               ELSE respOut[i]]
  /\ out_idx' = out_idx + 1
  /\ pc' = NextPcAfterOutput
  /\ UNCHANGED <<max_batch_size, request_count, reqs, inTypes,
                 nBatchInputs, total_batch_size, released, tensorNews,
                 input_tensors, input_idx, batch_idx, required_outputs,
                 request_required_outputs, engineRuns, output_tensors,
                 outcome, payloadKind>>
  /\ UNCHANGED <<cacheVars, strVars, cfgVars>>

\* lines 2217-2228: the responses that are still there are sent
SendResponses ==
  /\ pc = "send"
  /\ sent' = SendRemaining(sent, responses, "success")
  /\ pc' = "release"
  /\ UNCHANGED <<max_batch_size, request_count, reqs, inTypes,
                 nBatchInputs, total_batch_size, responses, released,
                 tensorNews, input_tensors, input_idx, batch_idx,
                 required_outputs, request_required_outputs, engineRuns,
                 output_tensors, out_idx, respOut, outcome, faults,
                 payloadKind>>
  /\ UNCHANGED <<cacheVars, strVars, cfgVars>>

\* lines 2230-2257: statistics, and the release of every request
ReleaseRequests ==
  /\ pc = "release"
  /\ released' = [i \in Reqs |-> released[i] + 1]
  /\ outcome' = "completed"
  /\ pc' = "returned"
  /\ UNCHANGED <<max_batch_size, request_count, reqs, inTypes,
                 nBatchInputs, total_batch_size, responses, sent,
                 tensorNews, input_tensors, input_idx, batch_idx,
                 required_outputs, request_required_outputs, engineRuns,
                 output_tensors, out_idx, respOut, faults,
                 payloadKind>>
  /\ UNCHANGED <<cacheVars, strVars, cfgVars>>

BadRequests ==
  {[kind |-> "none", at |-> 0]} \cup
  [kind : {"null", "input_error"}, at : 1..MaxReq]

Next ==
  \/ /\ pc = "idle"
     /\ \E mbs \in 0..MaxBatch, n \in 1..MaxReq,
           types \in InTypeChoices, nb \in 0..1 :
          \E ks \in [1..n -> 0..MaxDim] : Call(mbs, n, ks, types, nb)
  \/ /\ pc = "batch_size"
     /\ \E bad \in BadRequests : ComputeBatchSize(bad)
  \/ /\ pc = "responses"
     /\ \E fail \in SUBSET Reqs : CreateResponses(fail)
  \/ ProcessInputAllocFail
  \/ /\ pc = "inputs"
     /\ input_idx < Len(inTypes)
     /\ inTypes[input_idx + 1] = "BYTES"
     /\ \E kinds \in SeqProduct([i \in Reqs |-> KindChoices(i)]) :
          ProcessBytesInput(kinds)
  \/ /\ pc = "inputs"
     /\ \E fail \in SUBSET Reqs : ProcessOtherInput(fail)
  \/ BatchInputAllocFail
  \/ /\ pc = "batch_inputs"
     /\ \E ok \in BOOLEAN : ProcessBatchInput(ok)
  \/ /\ pc = "batch_inputs"
     /\ batch_idx = nBatchInputs
     /\ \E c \in SeqProduct([i \in Reqs |-> WantGotChoices(i)]) :
          CollectRequiredOutputs([i \in Reqs |-> c[i][1]],
                                 [i \in Reqs |-> c[i][2]])
  \/ /\ pc = "run"
     /\ \E ok \in BOOLEAN : ModelRun(ok)
  \/ /\ pc = "outputs"
     /\ out_idx < Len(output_tensors)
     /\ \E fm \in SeqProduct([i \in Reqs |-> OutputFaultChoices(i)]),
           ub \in {"benign", "crash"} :
          ProcessBytesOutput(fm, ub)
  \/ /\ pc = "outputs"
     /\ \E fail \in SUBSET Reqs : ProcessOtherOutput(fail)
  \/ SendResponses
  \/ ReleaseRequests

(***************************************************************************)
(* Model signatures and model configurations.  A TRITONTF_IO is a record   *)
(* [name, data_type, shape]; a model is [platform, inputs, outputs] with   *)
(* the two TRITONTF_IOLists as sequences.  The configuration is the JSON   *)
(* document of ModelConfig(): a member that can be absent has a has_ or    *)
(* present flag next to it.                                                *)
(***************************************************************************)
WILDCARD_DIM == -1

\* sizes a dimension of a model tensor or of a configured shape takes
DimVals == {WILDCARD_DIM, 1, 4}

RECURSIVE ShapesOfRank(_)
ShapesOfRank(r) ==
  IF r = 0 THEN {<<>>}
  ELSE {<<dv>> \o s : dv \in DimVals, s \in ShapesOfRank(r - 1)}

Shapes == UNION {ShapesOfRank(r) : r \in 0..MaxRank}

IO(n, t, shape) == [name |-> n, data_type |-> t, shape |-> shape]

Entry(n, t, dims) ==
  [name |-> n, data_type |-> t, has_dims |-> TRUE, dims |-> dims,
   has_reshape |-> FALSE, reshape |-> <<>>, allow_ragged_batch |-> FALSE]

ControlKinds ==
  <<"CONTROL_SEQUENCE_START", "CONTROL_SEQUENCE_END",
    "CONTROL_SEQUENCE_READY", "CONTROL_SEQUENCE_CORRID">>

ControlKindSet == {ControlKinds[k] : k \in DOMAIN ControlKinds}

\* a sequence_batching object is [present, control]; control gives for
\* each kind the tensor name ("" when the kind is not configured) and
\* the data type of the control
NoControl == [name |-> "", data_type |-> ""]

NoSequenceBatching ==
  [present |-> FALSE, control |-> [k \in ControlKindSet |-> NoControl]]

NoError == [code |-> "OK", what |-> "", tensor |-> ""]

Err(code, what, tensor) == [code |-> code, what |-> what, tensor |-> tensor]

\* the first error of a sequence of checks each made only if the checks
\* before it passed (RETURN_IF_ERROR)
FirstError(errs) ==
  IF \E k \in DOMAIN errs : errs[k] # NoError
    THEN errs[CHOOSE k \in DOMAIN errs :
                /\ errs[k] # NoError
                /\ \A j \in DOMAIN errs : j < k => errs[j] = NoError]
    ELSE NoError

NamesOf(ios) == {ios[k].name : k \in DOMAIN ios}

NullIO == [name |-> "", data_type |-> "INVALID", shape |-> <<>>]

FindIOByName(ios, name) ==
  IF name \in NamesOf(ios)
    THEN ios[CHOOSE k \in DOMAIN ios :
               /\ ios[k].name = name
               /\ \A j \in DOMAIN ios : j < k => ios[j].name # name]
    ELSE NullIO

ConvertDataType(dtype) ==
  CASE dtype = "TYPE_BOOL" -> "BOOL"
    [] dtype = "TYPE_INT32" -> "INT32"
    [] dtype = "TYPE_FP32" -> "FP32"
    [] OTHER -> "INVALID"

ConvertToModelConfigString(dtype) ==
  CASE dtype = "BOOL" -> "TYPE_BOOL"
    [] dtype = "INT32" -> "TYPE_INT32"
    [] dtype = "FP32" -> "TYPE_FP32"
    [] OTHER -> "TYPE_INVALID"

CompareDataType(model_dtype, dtype) ==
  LET cdtype == ConvertDataType(dtype)
  IN cdtype # "INVALID" /\ model_dtype = cdtype

\* the loop of CompareDims without the comparison of the sizes
DimsAgreeRankOnly(model_shape, full_dims, compare_exact) ==
  Len(model_shape) = Len(full_dims)

\* the loop of CompareDims over the dimensions
DimsAgree(model_shape, full_dims, compare_exact) ==
  /\ Len(model_shape) = Len(full_dims)
  /\ \A i \in 1..Len(full_dims) :
       (compare_exact \/ model_shape[i] # WILDCARD_DIM)
         => model_shape[i] = full_dims[i]

\* CompareDims that lets a model WILDCARD match any configured size
\* whatever compare_exact is
CompareDimsNeverExact(model_shape, dims, supports_batching, compare_exact) ==
  IF supports_batching
    THEN /\ Len(model_shape) # 0
         /\ model_shape[1] = WILDCARD_DIM
         /\ DimsAgree(model_shape, <<WILDCARD_DIM>> \o dims, FALSE)
    ELSE DimsAgree(model_shape, dims, FALSE)

\* TRUE when CompareDims returns success
CompareDims(model_shape, dims, supports_batching, compare_exact) ==
  IF supports_batching
    THEN /\ Len(model_shape) # 0
         /\ model_shape[1] = WILDCARD_DIM
         /\ DimsAgree(model_shape, <<WILDCARD_DIM>> \o dims, compare_exact)
    ELSE DimsAgree(model_shape, dims, compare_exact)

(***************************************************************************)
(* graphdef::ValidateTRITONTFModel: the model lists potential inputs and   *)
(* outputs by name only.                                                   *)
(***************************************************************************)
\* ValidateSequenceControl that does not look the tensor up
GraphdefValidateSequenceControlNoLookup(cfg, control_kind, inputs) ==
  NoError

GraphdefValidateSequenceControl(cfg, control_kind, inputs) ==
  LET tensor_name == cfg.sequence_batching.control[control_kind].name
  IN IF tensor_name # "" /\ tensor_name \notin NamesOf(inputs)
       THEN Err("INTERNAL", "sequence_control_missing", tensor_name)
       ELSE NoError

\* CheckAllowedModelInput / CheckAllowedModelOutput
CheckAllowedModelIO(io, allowed) ==
  IF io.name \in allowed THEN NoError
  ELSE Err("INVALID_ARG", "unexpected_io", io.name)

\* lines 133-143
GraphdefCountError(tf, cfg) ==
  IF Cardinality(NamesOf(tf.inputs)) < Len(cfg.input)
    THEN Err("INVALID_ARG", "input_count", "") ELSE NoError

GraphdefValidateTRITONTFModel(tf, cfg) ==
  FirstError(
    <<IF cfg.has_input THEN NoError ELSE Err("INVALID_ARG", "no_member", "input"),
      GraphdefCountError(tf, cfg)>>
    \o (IF cfg.sequence_batching.present
          THEN [k \in DOMAIN ControlKinds |->
                  GraphdefValidateSequenceControl(cfg, ControlKinds[k], tf.inputs)]
          ELSE <<>>)
    \o [i \in DOMAIN cfg.input |->
          CheckAllowedModelIO(cfg.input[i], NamesOf(tf.inputs))]
    \o <<IF cfg.has_output THEN NoError ELSE Err("INVALID_ARG", "no_member", "output")>>
    \o [i \in DOMAIN cfg.output |->
          CheckAllowedModelIO(cfg.output[i], NamesOf(tf.outputs))])

(***************************************************************************)
(* savedmodel::ValidateTRITONTFModel: the signature gives name, data type  *)
(* and shape of every input and output.                                    *)
(***************************************************************************)
\* *have_control of ValidateSequenceControl
HaveControl(cfg, control_kind) ==
  cfg.sequence_batching.control[control_kind].name # ""

SavedmodelValidateSequenceControl(cfg, control_kind, inputs) ==
  LET tensor_name == cfg.sequence_batching.control[control_kind].name
      tensor_datatype == cfg.sequence_batching.control[control_kind].data_type
      input == FindIOByName(inputs, tensor_name)
  IN IF ~HaveControl(cfg, control_kind) THEN NoError
     ELSE IF tensor_name \notin NamesOf(inputs)
       THEN Err("INTERNAL", "sequence_control_missing", tensor_name)
     ELSE IF ~CompareDims(input.shape, <<1>>, cfg.max_batch_size > 0, TRUE)
       THEN Err("INVALID_ARG", "sequence_control_shape", tensor_name)
     ELSE IF ~CompareDataType(input.data_type, tensor_datatype)
       THEN Err("INVALID_ARG", "sequence_control_data_type", tensor_name)
     ELSE NoError

\* expected_input_cnt of lines 278-316
ExpectedInputCnt(cfg) ==
  Len(cfg.input) + cfg.batch_input
    + (IF cfg.sequence_batching.present
         THEN Cardinality({k \in ControlKindSet : HaveControl(cfg, k)})
         ELSE 0)

\* the equality of line 320 relaxed to the lower bound of the GraphDef
\* check
SavedmodelCountErrorAtLeast(tf, cfg) ==
  IF Cardinality(NamesOf(tf.inputs)) < ExpectedInputCnt(cfg)
    THEN Err("INVALID_ARG", "input_count", "") ELSE NoError

\* lines 320-328
SavedmodelCountError(tf, cfg) ==
  IF Cardinality(NamesOf(tf.inputs)) # ExpectedInputCnt(cfg)
    THEN Err("INVALID_ARG", "input_count", "") ELSE NoError

\* the shape the configuration gives a tensor: reshape.shape when the
\* entry has a reshape, dims otherwise
ConfiguredDims(e) == IF e.has_reshape THEN e.reshape ELSE e.dims

\* lines 333-375 for one configured input: the checks up to the shape
SavedmodelInputShapeError(tf, cfg, e) ==
  LET input == FindIOByName(tf.inputs, e.name)
  IN IF e.name \notin NamesOf(tf.inputs)
       THEN Err("INVALID_ARG", "unexpected_io", e.name)
     ELSE IF ~e.has_reshape /\ ~e.has_dims
       THEN Err("INVALID_ARG", "no_member", e.name)
     ELSE IF Len(input.shape) # 0
       THEN IF e.allow_ragged_batch
              THEN IF input.shape # <<WILDCARD_DIM>>
                     THEN Err("INVALID_ARG", "ragged_shape", e.name)
                     ELSE NoError
              ELSE IF ~CompareDims(input.shape, ConfiguredDims(e),
                                   cfg.max_batch_size > 0, FALSE)
                     THEN Err("INVALID_ARG", "shape", e.name)
                     ELSE NoError
     ELSE NoError

\* lines 404-434 for one configured output
SavedmodelOutputShapeError(tf, cfg, e) ==
  LET output == FindIOByName(tf.outputs, e.name)
  IN IF e.name \notin NamesOf(tf.outputs)
       THEN Err("INVALID_ARG", "unexpected_io", e.name)
     ELSE IF ~e.has_reshape /\ ~e.has_dims
       THEN Err("INVALID_ARG", "no_member", e.name)
     ELSE IF Len(output.shape) # 0 /\ e.name \notin cfg.batch_output
               /\ ~CompareDims(output.shape, ConfiguredDims(e),
                               cfg.max_batch_size > 0, TRUE)
       THEN Err("INVALID_ARG", "shape", e.name)
     ELSE NoError

\* lines 389-399 and 448-458
DataTypeError(ios, e) ==
  IF ~CompareDataType(FindIOByName(ios, e.name).data_type, e.data_type)
    THEN Err("INVALID_ARG", "data_type", e.name) ELSE NoError

SavedmodelIOError(shapeErr, ios, e) ==
  IF shapeErr # NoError THEN shapeErr ELSE DataTypeError(ios, e)

SavedmodelValidateTRITONTFModel(tf, cfg) ==
  FirstError(
    <<IF cfg.has_input THEN NoError ELSE Err("INVALID_ARG", "no_member", "input")>>
    \o (IF cfg.sequence_batching.present
          THEN [k \in DOMAIN ControlKinds |->
                  SavedmodelValidateSequenceControl(cfg, ControlKinds[k], tf.inputs)]
          ELSE <<>>)
    \o <<SavedmodelCountError(tf, cfg)>>
    \o [i \in DOMAIN cfg.input |->
          SavedmodelIOError(SavedmodelInputShapeError(tf, cfg, cfg.input[i]),
                            tf.inputs, cfg.input[i])]
    \o <<IF cfg.has_output THEN NoError ELSE Err("INVALID_ARG", "no_member", "output")>>
    \o [i \in DOMAIN cfg.output |->
          SavedmodelIOError(SavedmodelOutputShapeError(tf, cfg, cfg.output[i]),
                            tf.outputs, cfg.output[i])])

\* lines 376-387 and 435-446: a tensor the signature gives no shape (rank
\* 0) takes the configured shape; with batching dims_[0] of the malloc'ed
\* array is never written and holds whatever the allocation held (junk)
ShapeFromConfig(io, e, supports_batching, junk) ==
  [io EXCEPT !.shape = (IF supports_batching THEN <<junk>> ELSE <<>>)
                         \o ConfiguredDims(e)]

\* the IO list after ValidateTRITONTFModel: shapeErrs[i] is the outcome of
\* the checks up to the shape for entry i, errs[i] its whole outcome, and
\* reached tells that the loop over the entries was entered
FillShapes(ios, entries, shapeErrs, errs, reached, supports_batching, junk) ==
  [k \in DOMAIN ios |->
     IF /\ reached
        /\ Len(ios[k].shape) = 0
        /\ \E i \in DOMAIN entries :
             /\ entries[i].name = ios[k].name
             /\ shapeErrs[i] = NoError
             /\ \A j \in DOMAIN entries : j < i => errs[j] = NoError
       THEN ShapeFromConfig(ios[k],
              entries[CHOOSE i \in DOMAIN entries : entries[i].name = ios[k].name],
              supports_batching, junk)
       ELSE ios[k]]

(***************************************************************************)
(* The models and configurations the validation is applied to.  One       *)
(* family varies which inputs and controls the model and the               *)
(* configuration name; the others vary shape and data type of one input,   *)
(* one output or one control tensor.                                       *)
(***************************************************************************)
Platforms == {"graphdef", "savedmodel"}

\* values the unwritten dims_[0] of a shape taken from the configuration
\* can hold
UninitDims == {WILDCARD_DIM, 0, 4}

Pick(order, S) == SelectSeq(order, LAMBDA x : x \in S)

BatchedShape(mbs, dims) == IF mbs > 0 THEN <<WILDCARD_DIM>> \o dims ELSE dims

ControlTensor(control_kind) ==
  CASE control_kind = "CONTROL_SEQUENCE_START" -> "START"
    [] control_kind = "CONTROL_SEQUENCE_END" -> "END"
    [] control_kind = "CONTROL_SEQUENCE_READY" -> "READY"
    [] control_kind = "CONTROL_SEQUENCE_CORRID" -> "CORRID"

\* sequence_batching naming the controls of the kinds in K
SequenceBatching(K, dtype) ==
  [present |-> TRUE,
   control |-> [k \in ControlKindSet |->
                  IF k \in K THEN [name |-> ControlTensor(k), data_type |-> dtype]
                  ELSE NoControl]]

BaseConfig(mbs) ==
  [max_batch_size |-> mbs,
   has_input |-> TRUE, input |-> <<Entry("IN0", "TYPE_FP32", <<4>>)>>,
   has_output |-> TRUE, output |-> <<Entry("OUT0", "TYPE_FP32", <<4>>)>>,
   batch_input |-> 0, batch_output |-> {},
   sequence_batching |-> NoSequenceBatching,
   dynamic_batching |-> "none"]

BaseModel(p, mbs) ==
  [platform |-> p,
   inputs |-> <<IO("IN0", "FP32", BatchedShape(mbs, <<4>>))>>,
   outputs |-> <<IO("OUT0", "FP32", BatchedShape(mbs, <<4>>))>>]

IOsNamed(names, dtype, shape) ==
  [k \in DOMAIN names |-> IO(names[k], dtype, shape)]

EntriesNamed(names, dtype, dims) ==
  [k \in DOMAIN names |-> Entry(names[k], dtype, dims)]

CountCase(p, md, mc, ci, nb, sb) ==
  [tf |-> [BaseModel(p, MaxBatch) EXCEPT
             !.inputs =
               IOsNamed(Pick(<<"IN0", "IN1", "BIN">>, md), "FP32",
                        <<WILDCARD_DIM, 4>>)
               \o IOsNamed(Pick(<<"START", "END", "READY", "CORRID">>, mc),
                           "INT32", <<WILDCARD_DIM, 1>>)],
   cfg |-> [BaseConfig(MaxBatch) EXCEPT
             !.input = EntriesNamed(Pick(<<"IN0", "IN1">>, ci),
                                    "TYPE_FP32", <<4>>),
             !.batch_input = nb,
             !.sequence_batching = sb]]

SequenceBatchingChoices ==
  {NoSequenceBatching}
    \cup {SequenceBatching(K, "TYPE_INT32") : K \in SUBSET ControlKindSet}

InputShapeCase(mbs, mt, ms, cd, rg, hr) ==
  [tf |-> [BaseModel("savedmodel", mbs) EXCEPT
             !.inputs = <<IO("IN0", mt, ms)>>],
   cfg |-> [BaseConfig(mbs) EXCEPT
             !.input = <<[Entry("IN0", "TYPE_FP32", cd) EXCEPT
                            !.allow_ragged_batch = rg,
                            !.has_reshape = hr,
                            !.reshape = IF hr THEN <<4>> ELSE <<>>]>>]]

OutputShapeCase(mbs, mt, ms, cd, bo) ==
  [tf |-> [BaseModel("savedmodel", mbs) EXCEPT
             !.outputs = <<IO("OUT0", mt, ms)>>],
   cfg |-> [BaseConfig(mbs) EXCEPT
             !.output = <<Entry("OUT0", "TYPE_FP32", cd)>>,
             !.batch_output = bo]]

ControlShapeCase(mbs, k, ms, ct) ==
  [tf |-> [BaseModel("savedmodel", mbs) EXCEPT
             !.inputs = @ \o <<IO(ControlTensor(k), "INT32", ms)>>],
   cfg |-> [BaseConfig(mbs) EXCEPT
             !.sequence_batching = SequenceBatching({k}, ct)]]

\* the model and the configuration are those of the case c
Given(c) == tfModel = c.tf /\ config = c.cfg /\ repoConfig = c.cfg

\* the model and the configuration are one of the cases validated
GivenValidateCase ==
  \/ \E p \in Platforms, md \in SUBSET {"IN0", "IN1", "BIN"},
        mc \in SUBSET {"START", "END", "READY", "CORRID"},
        ci \in SUBSET {"IN0", "IN1"}, nb \in 0..1,
        sb \in SequenceBatchingChoices :
       Given(CountCase(p, md, mc, ci, nb, sb))
  \/ \E mbs \in {0, MaxBatch}, mt \in {"FP32", "INT32"}, ms \in Shapes,
        cd \in Shapes, rg \in BOOLEAN, hr \in BOOLEAN :
       Given(InputShapeCase(mbs, mt, ms, cd, rg, hr))
  \/ \E mbs \in {0, MaxBatch}, mt \in {"FP32", "INT32"}, ms \in Shapes,
        cd \in Shapes, bo \in {{}, {"OUT0"}} :
       Given(OutputShapeCase(mbs, mt, ms, cd, bo))
  \/ \E mbs \in {0, MaxBatch}, k \in ControlKindSet, ms \in Shapes,
        ct \in {"TYPE_INT32", "TYPE_FP32"} :
       Given(ControlShapeCase(mbs, k, ms, ct))

\* values the command line gives default-max-batch-size
DefaultChoices == {-1, 0, 1, MaxDefault}

\* a command line without default-max-batch-size
NoCmdline == [present |-> FALSE, value |-> 0]

NoModel == [platform |-> "none", inputs |-> <<>>, outputs |-> <<>>]

NotPublished == [set |-> FALSE, cfg |-> BaseConfig(0)]

InitCfg ==
  /\ cmdline = NoCmdline
  /\ default_max_batch_size_ = 0
  /\ tfModel = NoModel
  /\ config = BaseConfig(0)
  /\ repoConfig = BaseConfig(0)
  /\ auto_complete_config = FALSE
  /\ lpc = "start"
  /\ lErr = NoError
  /\ published = NotPublished
  /\ registered = FALSE

\* ModelState::CreateModel has created the TRITONTF_Model from the files of
\* the model and is about to validate it against the configuration
InitVal ==
  /\ InitCache /\ InitStr /\ InitCyc
  /\ cmdline = NoCmdline
  /\ default_max_batch_size_ = 0
  /\ GivenValidateCase
  /\ auto_complete_config = FALSE
  /\ lpc = "created"
  /\ lErr = NoError
  /\ published = NotPublished
  /\ registered = FALSE

\* CreateModel, line 938
ValidateGraphdef ==
  /\ lpc = "created"
  /\ tfModel.platform = "graphdef"
  /\ lErr' = GraphdefValidateTRITONTFModel(tfModel, config)
  /\ lpc' = "validated"
  /\ UNCHANGED <<default_max_batch_size_, tfModel, config,
                 auto_complete_config, repoConfig, cmdline, published, registered>>
  /\ UNCHANGED <<cacheVars, strVars, cycVars>>

\* the TRITONTF_Model after savedmodel::ValidateTRITONTFModel
SavedmodelFilled(tf, cfg, junk) ==
  LET sb == cfg.max_batch_size > 0
      inShape == [i \in DOMAIN cfg.input |->
                    SavedmodelInputShapeError(tf, cfg, cfg.input[i])]
      inErr == [i \in DOMAIN cfg.input |->
                  SavedmodelIOError(inShape[i], tf.inputs, cfg.input[i])]
      outShape == [i \in DOMAIN cfg.output |->
                     SavedmodelOutputShapeError(tf, cfg, cfg.output[i])]
      outErr == [i \in DOMAIN cfg.output |->
                   SavedmodelIOError(outShape[i], tf.outputs, cfg.output[i])]
      inReached ==
        /\ cfg.has_input
        /\ cfg.sequence_batching.present =>
             \A k \in ControlKindSet :
               SavedmodelValidateSequenceControl(cfg, k, tf.inputs) = NoError
        /\ SavedmodelCountError(tf, cfg) = NoError
      outReached ==
        /\ inReached
        /\ \A i \in DOMAIN inErr : inErr[i] = NoError
        /\ cfg.has_output
  IN [tf EXCEPT
        !.inputs = FillShapes(tf.inputs, cfg.input, inShape, inErr,
                              inReached, sb, junk),
        !.outputs = FillShapes(tf.outputs, cfg.output, outShape, outErr,
                               outReached, sb, junk)]

\* CreateModel, line 952
ValidateSavedmodel(junk) ==
  /\ lpc = "created"
  /\ tfModel.platform = "savedmodel"
  /\ lErr' = SavedmodelValidateTRITONTFModel(tfModel, config)
  /\ tfModel' = SavedmodelFilled(tfModel, config, junk)
  /\ lpc' = "validated"
  /\ UNCHANGED <<default_max_batch_size_, config, auto_complete_config, repoConfig, cmdline,
                 published, registered>>
  /\ UNCHANGED <<cacheVars, strVars, cycVars>>

NextVal ==
  \/ ValidateGraphdef
  \/ \E junk \in UninitDims : ValidateSavedmodel(junk)

SpecVal == InitVal /\ [][NextVal]_vars

(***************************************************************************)
(* AutoCompleteHelper: the completion of a SavedModel configuration from   *)
(* the signature of the model.                                             *)
(***************************************************************************)
\* lines 1200-1208
SigSupportsBatch(tf) ==
  \A ios \in {tf.inputs, tf.outputs} : \A k \in DOMAIN ios :
    Len(ios[k].shape) # 0 /\ ios[k].shape[1] = WILDCARD_DIM

\* lines 1251-1257: the dims FixBatchingSupport reads of an entry; a
\* member that is absent leaves the array empty
HintDims(e) ==
  IF e.has_reshape THEN e.reshape ELSE IF e.has_dims THEN e.dims ELSE <<>>

\* lines 1244-1286: should_batch of every configured tensor that has
\* non-empty dims and a model tensor of its name, inputs first
HintsOf(ios, entries) ==
  LET hinting == SelectSeq(entries,
                   LAMBDA e : Len(HintDims(e)) # 0 /\ e.name \in NamesOf(ios))
  IN [k \in DOMAIN hinting |->
        Len(FindIOByName(ios, hinting[k].name).shape) = Len(HintDims(hinting[k])) + 1]

\* the hints of the configured inputs alone
BatchHintsOfInputs(tf, cfg) == HintsOf(tf.inputs, cfg.input)

\* lines 1241-1243: the configured inputs, then the configured outputs
BatchHints(tf, cfg) ==
  HintsOf(tf.inputs, cfg.input) \o HintsOf(tf.outputs, cfg.output)

\* the larger of two integers
Max(a, b) == IF a >= b THEN a ELSE b

\* line 1291-1295 without the lower bound 0
NewMaxBatchSizeUnclamped(model_support_batching_, default) ==
  IF model_support_batching_ THEN default ELSE 0

\* lines 1291-1295
NewMaxBatchSize(model_support_batching_, default) ==
  IF model_support_batching_ THEN Max(default, 0) ELSE 0

\* lines 1318-1331 adding the scheduler for every batching model
AddDynamicBatchingAlways(cfg) ==
  IF cfg.max_batch_size > 0
       /\ ~cfg.sequence_batching.present /\ cfg.dynamic_batching = "none"
    THEN [cfg EXCEPT !.dynamic_batching = "default"]
    ELSE cfg

\* lines 1318-1331
AddDynamicBatching(cfg) ==
  IF cfg.max_batch_size > 1
       /\ ~cfg.sequence_batching.present /\ cfg.dynamic_batching = "none"
    THEN [cfg EXCEPT !.dynamic_batching = "default"]
    ELSE cfg

\* the result is [err, cfg, model_support_batching_]
FixBatchingSupport(tf, cfg, default) ==
  LET sig_supports_batch == SigSupportsBatch(tf)
      hints == IF sig_supports_batch /\ cfg.max_batch_size = 0
                 THEN BatchHints(tf, cfg) ELSE <<>>
      msb == IF Len(hints) = 0 THEN sig_supports_batch ELSE hints[1]
      cfg1 == IF cfg.max_batch_size = 0
                THEN [cfg EXCEPT !.max_batch_size = NewMaxBatchSize(msb, default)]
                ELSE cfg
  IN IF ~sig_supports_batch /\ cfg.max_batch_size > 0
       THEN [err |-> Err("INTERNAL", "signature_no_batching", ""),
             cfg |-> cfg, model_support_batching_ |-> FALSE]
     ELSE IF \E i, j \in DOMAIN hints : hints[i] # hints[j]
       THEN [err |-> Err("INTERNAL", "contradicting_hints", ""),
             cfg |-> cfg, model_support_batching_ |-> FALSE]
     ELSE [err |-> NoError, cfg |-> AddDynamicBatching(cfg1),
           model_support_batching_ |-> msb]

\* lines 1396-1414: the entry made for a model tensor
AutoCompleteIO(io, model_support_batching_) ==
  LET dims == SubSeq(io.shape, IF model_support_batching_ THEN 2 ELSE 1,
                     Len(io.shape))
  IN [name |-> io.name,
      data_type |-> ConvertToModelConfigString(io.data_type),
      has_dims |-> TRUE,
      dims |-> IF Len(dims) = 0 THEN <<1>> ELSE dims,
      has_reshape |-> Len(dims) = 0,
      reshape |-> <<>>,
      allow_ragged_batch |-> FALSE]

\* the body of the loop of FixIOConfig for model tensor io.  st is
\* [err, has, list, moved]: the error so far, the member 'key' of the
\* configuration, and whether auto_complete_ios was moved from.  found_ios
\* and ios are read once before the loop.  Using auto_complete_ios after
\* the move of line 1417 is outside the contract of TritonJson::Value:
\* the append either fails (useAfterMove = "error") or has no effect on
\* the member already added (useAfterMove = "ignored").
FixIOStep(io, st, found_ios, ios, key, model_support_batching_, useAfterMove) ==
  IF Len(io.shape) = 0 /\ found_ios
    THEN IF Len(ios) = 0 \/ \E i \in DOMAIN ios : ~ios[i].has_dims
           THEN [st EXCEPT !.err = Err("INVALID_ARG", "rank_zero_no_dims", io.name)]
           ELSE st
  ELSE IF Len(io.shape) > 0 /\ ~found_ios
    THEN IF ~st.moved
           THEN [st EXCEPT !.has = TRUE,
                           !.list = <<AutoCompleteIO(io, model_support_batching_)>>,
                           !.moved = TRUE]
           ELSE IF useAfterMove = "error"
             THEN [st EXCEPT !.err = Err("INTERNAL", "json_append", io.name)]
             ELSE st
  ELSE IF Len(io.shape) > 0 /\ found_ios
    THEN IF \E i \in DOMAIN ios :
              Len(IF ios[i].has_dims THEN ios[i].dims ELSE <<>>)
                # Len(io.shape) - (IF model_support_batching_ THEN 1 ELSE 0)
           THEN [st EXCEPT !.err = Err("INVALID_ARG", "dims_count", io.name)]
           ELSE st
  ELSE [st EXCEPT !.err = Err("INVALID_ARG", "rank_zero", io.name)]

RECURSIVE FixIOLoop(_, _, _, _, _, _, _, _)
FixIOLoop(reference_list, k, st, found_ios, ios, key, msb, useAfterMove) ==
  IF k > Len(reference_list) \/ st.err # NoError THEN st
  ELSE FixIOLoop(reference_list, k + 1,
         FixIOStep(reference_list[k], st, found_ios, ios, key, msb, useAfterMove),
         found_ios, ios, key, msb, useAfterMove)

\* the result is [err, cfg]
FixIOConfig(reference_list, cfg, key, msb, useAfterMove) ==
  LET found_ios == IF key = "input" THEN cfg.has_input ELSE cfg.has_output
      ios == IF key = "input" THEN cfg.input ELSE cfg.output
      st == FixIOLoop(reference_list, 1,
              [err |-> NoError, has |-> found_ios, list |-> ios, moved |-> FALSE],
              found_ios, ios, key, msb, useAfterMove)
  IN [err |-> st.err,
      cfg |-> IF key = "input"
                THEN [cfg EXCEPT !.has_input = st.has, !.input = st.list]
                ELSE [cfg EXCEPT !.has_output = st.has, !.output = st.list]]

\* AutoCompleteHelper::Fix; the result is [err, cfg]
Fix(tf, cfg, default, useAfterMove) ==
  LET b == FixBatchingSupport(tf, cfg, default)
      i == FixIOConfig(tf.inputs, b.cfg, "input", b.model_support_batching_,
                       useAfterMove)
      o == FixIOConfig(tf.outputs, i.cfg, "output", b.model_support_batching_,
                       useAfterMove)
  IN IF b.err # NoError THEN [err |-> b.err, cfg |-> b.cfg]
     ELSE IF i.err # NoError THEN i
     ELSE o

\* ModelState::AutoCompleteConfig; loads tells whether TensorFlow could
\* load the model files
AutoCompleteConfig(tf, cfg, default, loads, useAfterMove) ==
  IF tf.platform = "graphdef" THEN [err |-> NoError, cfg |-> cfg]
  ELSE IF ~loads
    THEN [err |-> Err("INTERNAL", "tensorflow_load", ""), cfg |-> cfg]
  ELSE Fix(tf, cfg, default, useAfterMove)

(***************************************************************************)
(* The SavedModels and configurations the completion is applied to: one    *)
(* family varies what decides the batching support and the scheduler,      *)
(* the other the entries of the input or of the output list.               *)
(***************************************************************************)
\* model shapes: no shape, or a leading dimension that is variable or not
AutoShapes ==
  {s \in Shapes : /\ Len(s) >= 1 => s[1] \in {WILDCARD_DIM, 4}
                  /\ \A i \in 2..Len(s) : s[i] = 4}

\* configured dims
AutoDims == {s \in Shapes : Len(s) >= 1 /\ \A i \in 1..Len(s) : s[i] = 4}

\* an entry without the member dims
EntryWithoutDims(n, t) == [Entry(n, t, <<>>) EXCEPT !.has_dims = FALSE]

EntryVariants(n) ==
  {Entry(n, "TYPE_FP32", dv) : dv \in AutoDims} \cup {EntryWithoutDims(n, "TYPE_FP32")}

\* an input or output list of the configuration, as [has, list]
AbsentList == [has |-> FALSE, list |-> <<>>]

ListOf(entries) == [has |-> TRUE, list |-> entries]

OneEntryLists(n) ==
  {AbsentList, ListOf(<<>>)} \cup {ListOf(<<Entry(n, "TYPE_FP32", dv)>>) : dv \in AutoDims}

TwoEntryLists(n0, n1) ==
  {AbsentList, ListOf(<<>>)}
    \cup {ListOf(<<e0>>) : e0 \in EntryVariants(n0)}
    \cup {ListOf(<<e0, e1>>) : e0 \in EntryVariants(n0), e1 \in EntryVariants(n1)}

WithLists(cfg, il, ol) ==
  [cfg EXCEPT !.has_input = il.has, !.input = il.list,
              !.has_output = ol.has, !.output = ol.list]

BatchingCase(si, so, mbs, il, ol, sb, dyn) ==
  [tf |-> [platform |-> "savedmodel",
           inputs |-> <<IO("IN0", "FP32", si)>>,
           outputs |-> <<IO("OUT0", "FP32", so)>>],
   cfg |-> [WithLists(BaseConfig(mbs), il, ol) EXCEPT
              !.sequence_batching = sb, !.dynamic_batching = dyn]]

InputsCase(s0, s1, mbs, il, ol) ==
  [tf |-> [platform |-> "savedmodel",
           inputs |-> <<IO("IN0", "FP32", s0), IO("IN1", "INT32", s1)>>,
           outputs |-> <<IO("OUT0", "FP32", <<WILDCARD_DIM, 4>>)>>],
   cfg |-> WithLists(BaseConfig(mbs), il, ol)]

OutputsCase(s0, s1, mbs, il, ol) ==
  [tf |-> [platform |-> "savedmodel",
           inputs |-> <<IO("IN0", "FP32", <<WILDCARD_DIM, 4>>)>>,
           outputs |-> <<IO("OUT0", "FP32", s0), IO("OUT1", "INT32", s1)>>],
   cfg |-> WithLists(BaseConfig(mbs), il, ol)]

\* a configuration that already names every tensor of the model: each
\* entry has the tensor's name and data type and the tensor's shape as
\* dims, without the leading dimension when max_batch_size is positive
EntryFor(io, mbs) ==
  Entry(io.name, ConvertToModelConfigString(io.data_type),
        IF mbs > 0 THEN Tail(io.shape) ELSE io.shape)

CompleteCase(s0, s1, so, mbs) ==
  LET tf == [platform |-> "savedmodel",
             inputs |-> <<IO("IN0", "FP32", s0), IO("IN1", "INT32", s1)>>,
             outputs |-> <<IO("OUT0", "FP32", so)>>]
  IN [tf |-> tf,
      cfg |-> [WithLists(BaseConfig(mbs),
                 ListOf(<<EntryFor(tf.inputs[1], mbs), EntryFor(tf.inputs[2], mbs)>>),
                 ListOf(<<EntryFor(tf.outputs[1], mbs)>>))
               EXCEPT !.dynamic_batching = IF mbs > 1 THEN "user" ELSE "none"]]

\* the shapes a complete configuration can describe with max_batch_size mbs
CompleteShapes(mbs) ==
  {s \in AutoShapes : IF mbs > 0 THEN Len(s) >= 2 /\ s[1] = WILDCARD_DIM
                                 ELSE Len(s) >= 1}

\* the list of the one tensor the second family does not vary
FixedLists(n) == {AbsentList, ListOf(<<Entry(n, "TYPE_FP32", <<4>>)>>)}

\* a model whose input is a vector over the batch, configured with dims
\* [1] and an empty reshape
ReshapeCase(ol) ==
  [tf |-> [platform |-> "savedmodel",
           inputs |-> <<IO("IN0", "FP32", <<WILDCARD_DIM>>)>>,
           outputs |-> <<IO("OUT0", "FP32", <<WILDCARD_DIM, 4>>)>>],
   cfg |-> WithLists(BaseConfig(0),
             ListOf(<<[Entry("IN0", "TYPE_FP32", <<1>>) EXCEPT
                         !.has_reshape = TRUE, !.reshape = <<>>]>>),
             ol)]

GivenAutoCase ==
  \/ \E si \in AutoShapes, so \in AutoShapes, mbs \in {0, 1, MaxBatch},
        il \in OneEntryLists("IN0"), ol \in OneEntryLists("OUT0"),
        sb \in {NoSequenceBatching, SequenceBatching({}, "TYPE_INT32")},
        dyn \in {"none", "user"} :
       Given(BatchingCase(si, so, mbs, il, ol, sb, dyn))
  \/ \E s0 \in AutoShapes, s1 \in AutoShapes, mbs \in {0, MaxBatch},
        il \in TwoEntryLists("IN0", "IN1"), ol \in FixedLists("OUT0") :
       Given(InputsCase(s0, s1, mbs, il, ol))
  \/ \E s0 \in AutoShapes, s1 \in AutoShapes, mbs \in {0, MaxBatch},
        il \in FixedLists("IN0"), ol \in TwoEntryLists("OUT0", "OUT1") :
       Given(OutputsCase(s0, s1, mbs, il, ol))
  \/ \E mbs \in {0, MaxBatch} :
       \E s0 \in CompleteShapes(mbs), s1 \in CompleteShapes(mbs),
          so \in CompleteShapes(mbs) :
         Given(CompleteCase(s0, s1, so, mbs))
  \/ \E ol \in OneEntryLists("OUT0") : Given(ReshapeCase(ol))

\* the server starts the backend and is about to load a SavedModel with
\* auto-complete
InitAuto ==
  /\ InitCache /\ InitStr /\ InitCyc
  /\ cmdline \in {NoCmdline} \cup {[present |-> TRUE, value |-> v] : v \in DefaultChoices}
  /\ default_max_batch_size_ = 0
  /\ auto_complete_config = TRUE
  /\ GivenAutoCase
  /\ lpc = "backend"
  /\ lErr = NoError
  /\ published = NotPublished
  /\ registered = FALSE

\* TRITONBACKEND_Initialize, lines 2323-2346
BackendInitialize ==
  /\ lpc = "backend"
  /\ default_max_batch_size_' = IF cmdline.present THEN cmdline.value
                                ELSE default_max_batch_size_
  /\ lpc' = "create"
  /\ UNCHANGED <<tfModel, config, repoConfig, cmdline, auto_complete_config, lErr,
                 published, registered>>
  /\ UNCHANGED <<cacheVars, strVars, cycVars>>

\* ModelState::Create, lines 1013-1014, going on to line 1016 whatever
\* AutoCompleteConfig returned
CreateAutoCompleteUnchecked(loads, useAfterMove) ==
  /\ lpc = "create"
  /\ auto_complete_config
  /\ LET r == AutoCompleteConfig(tfModel, config, default_max_batch_size_,
                                 loads, useAfterMove)
     IN /\ config' = r.cfg
        /\ lErr' = r.err
        /\ lpc' = "set_config"
  /\ UNCHANGED <<default_max_batch_size_, tfModel, repoConfig, cmdline,
                 auto_complete_config, published, registered>>
  /\ UNCHANGED <<cacheVars, strVars, cycVars>>

\* ModelState::Create, lines 1013-1014
CreateAutoComplete(loads, useAfterMove) ==
  /\ lpc = "create"
  /\ auto_complete_config
  /\ LET r == AutoCompleteConfig(tfModel, config, default_max_batch_size_,
                                 loads, useAfterMove)
     IN /\ config' = r.cfg
        /\ lErr' = r.err
        /\ lpc' = IF r.err = NoError THEN "set_config" ELSE "failed"
  /\ UNCHANGED <<default_max_batch_size_, tfModel, repoConfig, cmdline,
                 auto_complete_config, published, registered>>
  /\ UNCHANGED <<cacheVars, strVars, cycVars>>

\* ModelState::Create, lines 1016-1025; accepted tells whether the server
\* took the message
CreateSetConfig(accepted) ==
  /\ lpc = "set_config"
  /\ IF accepted
       THEN /\ published' = [set |-> TRUE, cfg |-> config]
            /\ lpc' = "validate_config"
            /\ UNCHANGED lErr
       ELSE /\ lErr' = Err("INTERNAL", "set_config", "")
            /\ lpc' = "failed"
            /\ UNCHANGED published
  /\ UNCHANGED <<default_max_batch_size_, tfModel, config, repoConfig, cmdline,
                 auto_complete_config, registered>>
  /\ UNCHANGED <<cacheVars, strVars, cycVars>>

NextAuto ==
  \/ BackendInitialize
  \/ \E loads \in BOOLEAN, useAfterMove \in {"error", "ignored"} :
       CreateAutoComplete(loads, useAfterMove)
  \/ \E accepted \in BOOLEAN : CreateSetConfig(accepted)

SpecAuto == InitAuto /\ [][NextAuto]_vars

(***************************************************************************)
(* The load of one model: TRITONBACKEND_ModelInitialize runs               *)
(* ModelState::Create and registers the state, then                        *)
(* TRITONBACKEND_ModelInstanceInitialize creates the instances, each of    *)
(* which obtains an executable from GetModel; CreateModel validates the    *)
(* executable it loaded.                                                   *)
(***************************************************************************)
ValidateModelConfig(cfg) ==
  FirstError(
    <<IF cfg.has_input THEN NoError ELSE Err("INVALID_ARG", "no_member", "input")>>
    \o [i \in DOMAIN cfg.input |->
          IF ConvertDataType(cfg.input[i].data_type) = "INVALID"
            THEN Err("INVALID_ARG", "unsupported_datatype", cfg.input[i].name)
            ELSE NoError]
    \o <<IF cfg.has_output THEN NoError ELSE Err("INVALID_ARG", "no_member", "output")>>
    \o [i \in DOMAIN cfg.output |->
          IF ConvertDataType(cfg.output[i].data_type) = "INVALID"
            THEN Err("INVALID_ARG", "unsupported_datatype", cfg.output[i].name)
            ELSE NoError])

\* a model with the control tensors M whose configuration names the
\* controls of the kinds K
ControlCase(p, K, M) ==
  [tf |-> [BaseModel(p, MaxBatch) EXCEPT
             !.inputs = @ \o IOsNamed(Pick(<<"START", "END", "READY", "CORRID">>, M),
                                      "INT32", <<WILDCARD_DIM, 1>>)],
   cfg |-> [BaseConfig(MaxBatch) EXCEPT
             !.sequence_batching = SequenceBatching(K, "TYPE_INT32")]]

\* a configuration with a data type the backend does not know
BadTypeCase(p) ==
  [tf |-> BaseModel(p, 0),
   cfg |-> [BaseConfig(0) EXCEPT
             !.input = <<Entry("IN0", "TYPE_INVALID", <<4>>)>>]]

\* the models loaded without auto-complete
GivenLoadCase ==
  \/ \E p \in Platforms :
       Given(ControlCase(p, ControlKindSet, {"START", "END", "READY", "CORRID"}))
  \/ \E p \in Platforms, k \in ControlKindSet :
       Given(ControlCase(p, ControlKindSet,
                         {"START", "END", "READY", "CORRID"} \ {ControlTensor(k)}))
  \/ \E p \in Platforms : Given(BadTypeCase(p))

\* TRITONBACKEND_ModelInitialize is called for the model
InitLoad ==
  /\ InitCache /\ InitStr /\ InitCyc
  /\ cmdline = NoCmdline
  /\ default_max_batch_size_ = 0
  /\ auto_complete_config = FALSE
  /\ GivenLoadCase
  /\ lpc = "create"
  /\ lErr = NoError
  /\ published = NotPublished
  /\ registered = FALSE

\* ModelState::Create, lines 1010-1013, when no auto-complete is asked for
CreateSkipAutoComplete ==
  /\ lpc = "create"
  /\ ~auto_complete_config
  /\ lpc' = "validate_config"
  /\ UNCHANGED <<default_max_batch_size_, tfModel, config,
                 auto_complete_config, repoConfig, cmdline, lErr, published, registered>>
  /\ UNCHANGED <<cacheVars, strVars, cycVars>>

\* ModelState::Create, line 1028
CreateValidateModelConfig ==
  /\ lpc = "validate_config"
  /\ lErr' = ValidateModelConfig(config)
  /\ lpc' = IF lErr' = NoError THEN "parse" ELSE "failed"
  /\ UNCHANGED <<default_max_batch_size_, tfModel, config,
                 auto_complete_config, repoConfig, cmdline, published, registered>>
  /\ UNCHANGED <<cacheVars, strVars, cycVars>>

\* ModelState::Create, line 1029
CreateParseParameters ==
  /\ lpc = "parse"
  /\ ParseParameters

\* TRITONBACKEND_ModelInitialize, lines 2390-2394
ModelInitializeReturn ==
  /\ lpc = "parse"
  /\ mstate # "constructed"
  /\ IF mstate = "ready"
       THEN registered' = TRUE /\ lpc' = "registered"
       ELSE UNCHANGED registered /\ lpc' = "failed"
  /\ UNCHANGED <<default_max_batch_size_, tfModel, config,
                 auto_complete_config, repoConfig, cmdline, lErr, published>>
  /\ UNCHANGED <<cacheVars, strVars, cycVars>>

\* ValidateTRITONTFModel of the platform
ValidateTRITONTFModel(tf, cfg) ==
  IF tf.platform = "graphdef"
    THEN GraphdefValidateTRITONTFModel(tf, cfg)
    ELSE SavedmodelValidateTRITONTFModel(tf, cfg)

\* ModelInstanceState::Create of instance i on device dev; loads tells
\* whether TensorFlow could load the model files should CreateModel be
\* called
ModelInstanceInitialize(i, dev, loads, junk) ==
  /\ lpc = "registered"
  /\ LET err == ValidateTRITONTFModel(tfModel, config)
         called == ~CanReuse(models_, dev, max_session_share_count_)
         res == IF ~loads THEN "load_error"
                ELSE IF err # NoError THEN "validate_error" ELSE "ok"
     IN /\ InstanceCreateCache(i, dev, res)
        /\ IF called /\ loads
             THEN /\ lErr' = err
                  /\ tfModel' = IF tfModel.platform = "savedmodel"
                                  THEN SavedmodelFilled(tfModel, config, junk)
                                  ELSE tfModel
             ELSE /\ lErr' = IF called THEN Err("INTERNAL", "tensorflow_load", "")
                                       ELSE lErr
                  /\ UNCHANGED tfModel
  /\ UNCHANGED <<default_max_batch_size_, config, auto_complete_config, repoConfig, cmdline, lpc,
                 published, registered>>
  /\ UNCHANGED <<strVars, cycVars>>

NextLoad ==
  \/ CreateSkipAutoComplete
  \/ CreateValidateModelConfig
  \/ CreateParseParameters
  \/ ModelInitializeReturn
  \/ \E i \in Instances, dev \in Devices, loads \in BOOLEAN, junk \in UninitDims :
       ModelInstanceInitialize(i, dev, loads, junk)

SpecLoad == InitLoad /\ [][NextLoad]_vars

(***************************************************************************)
(* The load of one model with auto-complete: ModelState::Create completes  *)
(* the configuration and hands it to the server before it validates it,    *)
(* and the server creates instances only of a model whose                  *)
(* TRITONBACKEND_ModelInitialize succeeded.                                *)
(***************************************************************************)
\* SavedModels loaded with auto-complete: one input whose shape and list
\* vary, an output without a shape, and two inputs with their entries
GivenCreateCase ==
  \/ \E si \in AutoShapes,
        il \in {AbsentList, ListOf(<<Entry("IN0", "TYPE_FP32", <<4>>)>>)} :
       Given(BatchingCase(si, <<WILDCARD_DIM, 4>>, MaxBatch, il, AbsentList,
                          NoSequenceBatching, "none"))
  \/ Given(BatchingCase(<<WILDCARD_DIM, 4>>, <<>>, 0, AbsentList, AbsentList,
                        NoSequenceBatching, "none"))
  \/ \E s1 \in {s \in AutoShapes : Len(s) >= 1 /\ s[1] = WILDCARD_DIM} :
       Given(InputsCase(<<WILDCARD_DIM, 4>>, s1, MaxBatch,
                        ListOf(<<Entry("IN0", "TYPE_FP32", <<4>>),
                                 Entry("IN1", "TYPE_INT32", <<4>>)>>),
                        AbsentList))

\* TRITONBACKEND_ModelInitialize is called for the model, with or without
\* auto-complete
InitCreate ==
  /\ InitCache /\ InitStr /\ InitCyc
  /\ cmdline = NoCmdline
  /\ default_max_batch_size_ = 0
  /\ \/ auto_complete_config = TRUE /\ GivenCreateCase
     \/ auto_complete_config = FALSE /\ Given(BadTypeCase("savedmodel"))
  /\ lpc = "create"
  /\ lErr = NoError
  /\ published = NotPublished
  /\ registered = FALSE

NextCreate ==
  \/ \E loads \in BOOLEAN, useAfterMove \in {"error", "ignored"} :
       CreateAutoComplete(loads, useAfterMove)
  \/ \E accepted \in BOOLEAN : CreateSetConfig(accepted)
  \/ CreateSkipAutoComplete
  \/ CreateValidateModelConfig
  \/ CreateParseParameters
  \/ ModelInitializeReturn
  \/ \E i \in Instances, dev \in Devices, loads \in BOOLEAN, junk \in UninitDims :
       ModelInstanceInitialize(i, dev, loads, junk)

SpecCreate == InitCreate /\ [][NextCreate]_vars

(***************************************************************************)
(* CompareDims and ModelSupportsBatch (tensorflow_utils.cc) applied to     *)
(* the shapes of a model and the dims of a configuration.                  *)
(***************************************************************************)
\* one model input of shape s configured with dims dv; supports_batching
\* is max_batch_size > 0 as in the callers of CompareDims
DimsCase(s, dv, mbs) ==
  [tf |-> [platform |-> "savedmodel",
           inputs |-> <<IO("IN0", "FP32", s)>>, outputs |-> <<>>],
   cfg |-> [BaseConfig(mbs) EXCEPT !.input = <<Entry("IN0", "TYPE_FP32", dv)>>,
                                   !.output = <<>>]]

\* a model with the inputs and outputs of the given shapes
SignatureCase(ins, outs) ==
  [tf |-> [platform |-> "savedmodel",
           inputs |-> [k \in DOMAIN ins |-> IO(<<"IN0", "IN1">>[k], "FP32", ins[k])],
           outputs |-> [k \in DOMAIN outs |-> IO(<<"OUT0", "OUT1">>[k], "FP32", outs[k])]],
   cfg |-> BaseConfig(0)]

\* shapes of a signature: without dimensions, or a leading dimension that
\* is variable or fixed
SignatureShapes == {s \in Shapes : \A i \in 2..Len(s) : s[i] = 4}

SignatureLists == {<<a>> : a \in SignatureShapes} \cup {<<a, b>> : a \in SignatureShapes, b \in SignatureShapes}

InitUtil ==
  /\ InitCache /\ InitStr /\ InitCyc
  /\ cmdline = NoCmdline
  /\ default_max_batch_size_ = 0
  /\ auto_complete_config = FALSE
  /\ \/ /\ \E s \in Shapes, dv \in Shapes, mbs \in {0, MaxBatch} :
             Given(DimsCase(s, dv, mbs))
        /\ lpc = "dims"
     \/ /\ \E ins \in SignatureLists, outs \in SignatureLists :
             Given(SignatureCase(ins, outs))
        /\ lpc = "signature"
  /\ lErr = NoError
  /\ published = NotPublished
  /\ registered = FALSE

\* ModelSupportsBatch, tensorflow_utils.cc lines 33-46
ModelSupportsBatch(model_ios) ==
  \A l \in DOMAIN model_ios : \A k \in DOMAIN model_ios[l] :
    ~(Len(model_ios[l][k].shape) # 0 /\ model_ios[l][k].shape[1] # -1)

\* a call of CompareDims for the input; the result is kept in lErr
CallCompareDims(compare_exact) ==
  /\ lpc = "dims"
  /\ lErr' = IF CompareDims(tfModel.inputs[1].shape, config.input[1].dims,
                            config.max_batch_size > 0, compare_exact)
               THEN NoError
               ELSE Err("INVALID_ARG", "dims", tfModel.inputs[1].name)
  /\ lpc' = IF compare_exact THEN "compared_exact" ELSE "compared"
  /\ UNCHANGED <<default_max_batch_size_, tfModel, config, repoConfig, cmdline,
                 auto_complete_config, published, registered>>
  /\ UNCHANGED <<cacheVars, strVars, cycVars>>

\* a call of ModelSupportsBatch on the inputs and outputs of the model
CallModelSupportsBatch ==
  /\ lpc = "signature"
  /\ lErr' = IF ModelSupportsBatch(<<tfModel.inputs, tfModel.outputs>>)
               THEN NoError
               ELSE Err("INVALID_ARG", "no_batching", "")
  /\ lpc' = "answered"
  /\ UNCHANGED <<default_max_batch_size_, tfModel, config, repoConfig, cmdline,
                 auto_complete_config, published, registered>>
  /\ UNCHANGED <<cacheVars, strVars, cycVars>>

NextUtil ==
  \/ \E compare_exact \in BOOLEAN : CallCompareDims(compare_exact)
  \/ CallModelSupportsBatch

SpecUtil == InitUtil /\ [][NextUtil]_vars

(***************************************************************************)
(* A cycle of a model whose one input IN0 is configured as ragged.         *)
(***************************************************************************)
RaggedConfig ==
  [BaseConfig(MaxBatch) EXCEPT
     !.input = <<[Entry("IN0", "TYPE_FP32", <<WILDCARD_DIM>>) EXCEPT
                    !.allow_ragged_batch = TRUE]>>]

InitRagged ==
  /\ InitCache /\ InitStr /\ InitCyc
  /\ cmdline = NoCmdline
  /\ default_max_batch_size_ = 0
  /\ tfModel = NoModel
  /\ config = RaggedConfig
  /\ repoConfig = RaggedConfig
  /\ auto_complete_config = FALSE
  /\ lpc = "start"
  /\ lErr = NoError
  /\ published = NotPublished
  /\ registered = FALSE

NextRagged ==
  \/ /\ pc = "idle"
     /\ \E mbs \in 1..MaxBatch, n \in 1..MaxReq :
          \E ks \in [1..n -> 0..MaxDim] : Call(mbs, n, ks, <<"FP32">>, 0)
  \/ /\ pc = "batch_size"
     /\ \E bad \in BadRequests : ComputeBatchSize(bad)
  \/ /\ pc = "responses"
     /\ \E fail \in SUBSET Reqs : CreateResponses(fail)
  \/ ProcessInputAllocFail
  \/ /\ pc = "inputs"
     /\ \E missing \in SUBSET (Reqs \ {1}), junk \in UninitCounts,
           ub \in {"benign", "crash"}, fail \in SUBSET Reqs :
          ProcessRaggedInput(missing, junk, ub, fail)
  \/ /\ pc = "batch_inputs"
     /\ batch_idx = nBatchInputs
     /\ \E c \in SeqProduct([i \in Reqs |-> WantGotChoices(i)]) :
          CollectRequiredOutputs([i \in Reqs |-> c[i][1]],
                                 [i \in Reqs |-> c[i][2]])
  \/ /\ pc = "run"
     /\ \E ok \in BOOLEAN : ModelRun(ok)
  \/ /\ pc = "outputs"
     /\ out_idx < Len(output_tensors)
     /\ \E fm \in SeqProduct([i \in Reqs |-> OutputFaultChoices(i)]),
           ub \in {"benign", "crash"} :
          ProcessBytesOutput(fm, ub)
  \/ /\ pc = "outputs"
     /\ \E fail \in SUBSET Reqs : ProcessOtherOutput(fail)
  \/ SendResponses
  \/ ReleaseRequests

SpecRagged == InitRagged /\ [][NextRagged]_vars

Init == InitCache /\ InitStr /\ InitCyc /\ InitCfg

Spec == Init /\ [][Next]_vars

SpecStr == Init /\ [][NextStr /\ UNCHANGED <<cacheVars, cycVars, cfgVars>>]_vars

NextConc ==
  \/ ParseParameters
  \/ \E i \in Instances, dev \in Devices : GetModelFind(i, dev)
  \/ \E i \in Instances : GetModelCopy(i)
  \/ \E i \in Instances : GetModelIncrement(i)
  \/ \E i \in Instances, res \in CreateResults : GetModelCreate(i, res)
  \/ \E i \in Instances : GetModelRegister(i)

SpecConc == Init /\ [][NextConc]_vars

NextCache ==
  \/ ParseParameters
  \/ \E i \in Instances, dev \in Devices, res \in CreateResults :
       InstanceCreate(i, dev, res)

SpecCache == Init /\ [][NextCache]_vars

(***************************************************************************)
(* Properties of the executable cache.                                     *)
(***************************************************************************)
\* instances that hold executable h
Holders(h) == {i \in Instances : inst[i].st = "ok" /\ inst[i].model_ = h}
\* instances created on device d
OnDevice(d) == {i \in Instances : inst[i].st = "ok" /\ inst[i].dev = d}
CeilDiv(a, b) == (a + b - 1) \div b
RECURSIVE SumOver(_, _)
SumOver(S, f) ==
  IF S = {} THEN 0
  ELSE LET x == CHOOSE y \in S : TRUE IN f[x] + SumOver(S \ {x}, f)
\* executables a one-after-another execution loads for the created instances
SerialLoads ==
  SumOver(Devices, [d \in Devices |->
            CeilDiv(Cardinality(OnDevice(d)), max_session_share_count_)])
Quiescent == \A i \in Instances : gpc[i] = "idle"

\* C8: no executable is held by more than MAX_SESSION_SHARE_COUNT instances,
\* every cached share count lies in 1..MAX_SESSION_SHARE_COUNT, with the
\* default 1 every instance has its own executable, and with
\* MAX_SESSION_SHARE_COUNT equal to the number of instances one executable is
\* created and shared by all of them.
C8_ShareCountBound ==
  mstate = "ready" =>
    /\ \A h \in 1..loaded : Cardinality(Holders(h)) <= max_session_share_count_
    /\ \A d \in Devices : models_[d].present =>
          /\ models_[d].first >= 1
          /\ models_[d].first <= max_session_share_count_
    /\ max_session_share_count_ = 1 =>
          \A i, j \in Instances :
            (inst[i].st = "ok" /\ inst[j].st = "ok" /\ i # j)
              => inst[i].model_ # inst[j].model_
    /\ ( /\ max_session_share_count_ = NumInstances
         /\ \A i \in Instances : inst[i].st = "ok" )
          => /\ loaded = 1
             /\ \A i \in Instances : inst[i].model_ = 1

\* C9: concurrent GetModel calls behave like a serial execution: no share
\* count above MAX_SESSION_SHARE_COUNT, no lost increment (a cached count is
\* the number of instances holding the cached executable) and no more
\* executables loaded than a serial execution of the same calls loads.
C9_GetModelAtomic ==
  (mstate = "ready" /\ Quiescent) =>
    /\ \A d \in Devices : models_[d].present =>
          /\ models_[d].first <= max_session_share_count_
          /\ models_[d].first = Cardinality(Holders(models_[d].second))
    /\ loaded <= SerialLoads

\* C10: a GetModel call whose CreateModel fails leaves the device map and the
\* set of loaded executables as they were, creates no instance, and the load
\* is attempted once only: nothing is done for that instance afterwards.
C10_FailedLoadLeavesCache ==
  [][\A i \in Instances :
       /\ (inst[i].st = "new" /\ inst'[i].st = "err")
            => /\ models_' = models_
               /\ loaded' = loaded
               /\ inst'[i].model_ = 0
               /\ loadCalls'[i] = 1
               /\ \A j \in Instances \ {i} : inst'[j] = inst[j]
       /\ inst[i].st = "err"
            => (inst'[i] = inst[i] /\ loadCalls'[i] = loadCalls[i])]_vars

\* a failed load happened on a device whose cache entry was full
C10_Witness ==
  \E i \in Instances :
    /\ inst[i].st = "err"
    /\ models_[inst[i].dev].present
    /\ models_[inst[i].dev].first = max_session_share_count_

(***************************************************************************)
(* Properties of the BYTES encoding.                                       *)
(***************************************************************************)
\* C7: parsing the serialization of M strings with declared count M stores
\* the M strings in order, byte for byte, in the request's span of the
\* tensor and raises no error.
C7_RoundTrip ==
  (sPc = "parsed" /\ ~sCut /\ sCnt = Len(sElems)) =>
    /\ sRes.err = "none"
    /\ ~sRes.sent
    /\ ~sRes.t.oob
    /\ \A k \in 1..Len(sElems) : sRes.t.e[sOff + k] = sElems[k]

\* a round trip of two elements, the first of them the empty string
C7_Witness ==
  /\ sPc = "parsed" /\ ~sCut /\ sCnt = Len(sElems)
  /\ Len(sElems) = 2 /\ sElems[1] = <<>> /\ Len(sElems[2]) = 2
  /\ sRes.t.e[sOff + 2] = sElems[2]

(***************************************************************************)
(* Properties of the execution cycle.                                      *)
(***************************************************************************)
\* the error SetStringInputTensor reports for a truncated content
TruncError(kind) ==
  IF kind = "trunc_header" THEN "expected strings" ELSE "incomplete string data"

Truncated == {i \in Reqs : payloadKind[i] \in {"trunc_header", "trunc_body"}}

\* the response output request i is due for an output of the engine
OwnOutput(i, name) ==
  IF name = "OUT0"
    THEN [name |-> name, shape |-> ReqShape(i),
          data |-> SerializeFrom(EngineOutput(name).e,
                                 RowOffset(i) * GetElementCount(Rest),
                                 reqs[i].k * GetElementCount(Rest))]
    ELSE [name |-> name, shape |-> ReqShape(i),
          data |-> <<RowOffset(i), reqs[i].k>>]

\* the strings of request i sit at its offset in the batched BYTES input
HoldsStringsOf(it, i) ==
  \A e \in 1..GetElementCount(ReqShape(i)) :
    it.t.e[RowOffset(i) * GetElementCount(Rest) + e] = ElemStr(i, e)

WholeCycleFailed == pc = "returned" /\ outcome \in {"alloc", "engine"}

\* C1: on every path of ProcessRequests a response is sent at most once, and
\* every response that is still non-null when the outputs have been
\* distributed is sent exactly once, with success.
C1_SentAtMostOnce ==
  /\ \A i \in Reqs : Len(sent[i]) <= 1
  /\ pc = "send" => \A i \in Reqs : responses[i] = "live" => sent[i] = <<>>
  /\ (pc = "release" \/ (pc = "returned" /\ outcome = "completed")) =>
       \A i \in Reqs : responses[i] = "live" => sent[i] = <<"success">>

C1_Witness ==
  /\ pc = "returned"
  /\ outcome = "completed"
  /\ \E i, j \in Reqs :
       /\ responses[i] = "live" /\ sent[i] = <<"success">>
       /\ responses[j] = "null" /\ Len(sent[j]) = 1

\* C2: whenever ProcessRequests returns from a call with non-null requests,
\* every request has been released exactly once and every response that was
\* created has been sent, the return on a total batch size of 0 included.
C2_ReleasedOnEveryReturn ==
  (pc = "returned" /\ outcome # "null_request") =>
    \A i \in Reqs :
      /\ released[i] = 1
      /\ responses[i] = "live" => Len(sent[i]) = 1

\* C3: when exactly one request of a cycle of several supplies a BYTES
\* content with a truncated length header or a truncated body and nothing
\* else fails (no call made for a request, no tensor allocation, not the
\* engine), that request gets the error, the strings of the others are in
\* the batched tensor, the engine runs once and each of the others is sent
\* success with its own slice of every output it asked for.
C3_TruncatedContentFailsOneRequest ==
  (/\ request_count >= 2
   /\ Cardinality(Truncated) = 1
   /\ faults = 1
   /\ outcome \notin {"alloc", "engine"}) =>
    /\ pc # "crashed"
    /\ pc = "returned" => outcome = "completed"
    /\ \A j \in Truncated :
         /\ responses[j] = "null"
         /\ sent[j] = <<TruncError(payloadKind[j])>>
         /\ respOut[j] = {}
    /\ \A i \in Reqs \ Truncated :
         /\ \E x \in 1..Len(input_tensors) :
              /\ input_tensors[x].dt = "BYTES"
              /\ ~input_tensors[x].t.oob
              /\ HoldsStringsOf(input_tensors[x], i)
         /\ responses[i] = "live"
         /\ pc \in {"outputs", "send", "release", "returned"} => engineRuns = 1
         /\ pc = "returned" =>
              /\ sent[i] = <<"success">>
              /\ released[i] = 1
              /\ respOut[i] = {OwnOutput(i, name) : name \in reqs[i].wants}

C3_Witness ==
  /\ pc = "returned"
  /\ outcome = "completed"
  /\ request_count >= 2
  /\ faults = 1
  /\ \E j \in Reqs, i \in Reqs :
       /\ Truncated = {j}
       /\ payloadKind[j] = "trunc_header"
       /\ i > j
       /\ reqs[i].k >= 1
       /\ "OUT0" \in reqs[i].wants
       /\ sent[i] = <<"success">>

\* C4 as stated: after an input tensor cannot be allocated or the engine
\* run fails, every request of the cycle has that error as its final
\* response, every request is released, no output is distributed, and the
\* engine has run not at all, respectively once.
C4_EveryRequestGetsTheError ==
  WholeCycleFailed =>
    /\ \A i \in Reqs :
         sent[i] = <<outcome>> /\ released[i] = 1 /\ respOut[i] = {}
    /\ output_tensors = <<>>
    /\ engineRuns = IF outcome = "alloc" THEN 0 ELSE 1

\* C4, amended: after an input tensor cannot be allocated or the engine run
\* fails, every request whose response is still there has that error as its
\* only response, a request whose response is gone has at most the error
\* that was sent for it before, every request is released once, no output is
\* distributed, and the engine has run not at all, respectively once.
C4_PendingRequestsGetTheError ==
  WholeCycleFailed =>
    /\ \A i \in Reqs :
         /\ responses[i] = "live" => sent[i] = <<outcome>>
         /\ responses[i] # "live" =>
              /\ Len(sent[i]) <= 1
              /\ \A x \in 1..Len(sent[i]) : sent[i][x] # outcome
         /\ released[i] = 1
         /\ respOut[i] = {}
    /\ output_tensors = <<>>
    /\ engineRuns = IF outcome = "alloc" THEN 0 ELSE 1

C4_Witness ==
  /\ WholeCycleFailed
  /\ outcome = "engine"
  /\ \E i, j \in Reqs :
       /\ responses[i] = "live" /\ sent[i] = <<"engine">>
       /\ responses[j] = "null" /\ Len(sent[j]) = 1

\* C5: a cycle whose requests can all be read is rejected exactly when its
\* total batch size exceeds max_batch_size (for max_batch_size = 0: when it
\* has more than one request); a rejected cycle has the internal error sent
\* for every request, every request released, no tensor created and no
\* engine run.
C5_BatchSizeExceeded ==
  outcome \notin {"none", "null_request", "input_error"} =>
    LET over == IF max_batch_size > 0
                  THEN SumLeading(reqs, request_count) > max_batch_size
                  ELSE request_count > 1
    IN /\ (outcome = "exceeded") <=> over
       /\ outcome = "exceeded" =>
            /\ pc = "returned"
            /\ \A i \in Reqs :
                 /\ sent[i] = <<"batch size">>
                 /\ released[i] = 1
                 /\ responses[i] = "none"
            /\ tensorNews = 0
            /\ input_tensors = <<>>
            /\ engineRuns = 0
       /\ (max_batch_size = 0 /\ request_count = 1) =>
            outcome \in {"accepted", "alloc", "engine", "completed"}

C5_Witness ==
  /\ outcome = "exceeded"
  /\ max_batch_size > 0
  /\ request_count >= 2
  /\ \A i \in Reqs : reqs[i].k <= max_batch_size

\* C6 as stated: the tensor created for an input has as leading dimension
\* the sum of the requests' leading dimensions when max_batch_size > 0 and
\* the number of requests otherwise, and the first request's other
\* dimensions.
C6_LeadingDimIsRequestCount ==
  \A x \in 1..Len(input_tensors) :
    input_tensors[x].dt # "BATCH" =>
      /\ Head(input_tensors[x].shape) =
           IF max_batch_size > 0 THEN SumLeading(reqs, request_count)
           ELSE request_count
      /\ Tail(input_tensors[x].shape) = Tail(ReqShape(1))

\* C6, amended: the tensor created for an input has as leading dimension
\* the sum of the requests' leading dimensions and the first request's
\* other dimensions when max_batch_size > 0, and is of the first request's
\* shape, leading dimension included, when max_batch_size = 0.
C6_BatchedShape ==
  \A x \in 1..Len(input_tensors) :
    input_tensors[x].dt # "BATCH" =>
      IF max_batch_size > 0
        THEN /\ Head(input_tensors[x].shape) = SumLeading(reqs, request_count)
             /\ Tail(input_tensors[x].shape) = Tail(ReqShape(1))
        ELSE input_tensors[x].shape = ReqShape(1)

C6_Witness ==
  /\ Len(input_tensors) >= 1
  /\ input_tensors[1].dt # "BATCH"
  /\ max_batch_size > 0
  /\ request_count = 2
  /\ reqs[1].k = 1
  /\ reqs[2].k = 1
  /\ input_tensors[1].shape = <<2>> \o Rest

(***************************************************************************)
(* Validation of a model against its configuration.                        *)
(***************************************************************************)
\* number of control kinds the configuration gives a tensor name
ResolvedControls(cfg) ==
  IF cfg.sequence_batching.present
    THEN Cardinality({k \in ControlKindSet :
                        cfg.sequence_batching.control[k].name # ""})
    ELSE 0

\* names the configuration expects among the model inputs of a GraphDef
GraphdefNamedInputs(cfg) ==
  {cfg.input[i].name : i \in DOMAIN cfg.input}
    \cup (IF cfg.sequence_batching.present
            THEN {cfg.sequence_batching.control[k].name : k \in ControlKindSet}
                   \ {""}
            ELSE {})

\* C11: a SavedModel passes validation only if the number of its inputs
\* equals the configured inputs plus the batch_input entries plus the
\* sequence controls that have a tensor name, so one input more or fewer
\* fails the load; a GraphDef fails the count check exactly when it has
\* fewer inputs than the configuration has input entries, and passes
\* validation whenever every configured input, control and output is
\* among its tensors, however many more inputs it has.
C11_InputCount ==
  lpc = "validated" =>
    /\ tfModel.platform = "savedmodel" =>
         (lErr = NoError =>
            Len(tfModel.inputs)
              = Len(config.input) + config.batch_input + ResolvedControls(config))
    /\ tfModel.platform = "graphdef" =>
         /\ lErr.what = "input_count" <=> Len(tfModel.inputs) < Len(config.input)
         /\ lErr = NoError <=>
              /\ GraphdefNamedInputs(config) \subseteq NamesOf(tfModel.inputs)
              /\ {config.output[i].name : i \in DOMAIN config.output}
                   \subseteq NamesOf(tfModel.outputs)

\* a SavedModel with one input more than the configuration accounts for,
\* batch input and controls included, was refused for the count
C11_Witness ==
  /\ lpc = "validated"
  /\ tfModel.platform = "savedmodel"
  /\ config.batch_input = 1
  /\ ResolvedControls(config) = 2
  /\ Len(tfModel.inputs)
       = Len(config.input) + config.batch_input + ResolvedControls(config) + 1
  /\ lErr.what = "input_count"

\* the complete shape the configuration gives the tensor of entry e
FullDims(cfg, e) == BatchedShape(cfg.max_batch_size, ConfiguredDims(e))

\* the model shape is the configured one or has WILDCARD where it differs
MorePermissive(model_shape, full_dims) ==
  /\ Len(model_shape) = Len(full_dims)
  /\ \A i \in 1..Len(full_dims) :
       model_shape[i] = WILDCARD_DIM \/ model_shape[i] = full_dims[i]

\* the configured controls, as [name, data_type]
ConfiguredControls(cfg) ==
  IF cfg.sequence_batching.present
    THEN {cfg.sequence_batching.control[k] : k \in ControlKindSet} \ {NoControl}
    ELSE {}

\* the step is savedmodel::ValidateTRITONTFModel applied to tfModel, config
SavedmodelValidated ==
  lpc = "created" /\ lpc' = "validated" /\ tfModel.platform = "savedmodel"

\* the validation refused the shape of the tensor named n
ShapeRefused(n) == lErr'.tensor = n /\ lErr'.what \in {"shape", "ragged_shape"}

\* every data type of an accepted configuration is the model's
DataTypesEqual ==
  /\ \A i \in DOMAIN config.input :
       ConvertDataType(config.input[i].data_type)
         = FindIOByName(tfModel.inputs, config.input[i].name).data_type
  /\ \A i \in DOMAIN config.output :
       ConvertDataType(config.output[i].data_type)
         = FindIOByName(tfModel.outputs, config.output[i].name).data_type
  /\ \A c \in ConfiguredControls(config) :
       ConvertDataType(c.data_type) = FindIOByName(tfModel.inputs, c.name).data_type

\* every configured control tensor of an accepted configuration has shape
\* [1] after the batch dimension
ControlsAreOne ==
  \A c \in ConfiguredControls(config) :
    FindIOByName(tfModel.inputs, c.name).shape
      = BatchedShape(config.max_batch_size, <<1>>)

\* C12 as stated: every input whose model shape is more permissive than
\* the configured one passes the shape check, every accepted output not
\* bound by batch_output and every accepted control equals the configured
\* shape dimension for dimension, an output bound by batch_output is never
\* refused for its shape, and accepted data types are equal.
C12_ShapeMatchAsStated ==
  [][SavedmodelValidated =>
       /\ \A i \in DOMAIN config.input :
            MorePermissive(FindIOByName(tfModel.inputs, config.input[i].name).shape,
                           FullDims(config, config.input[i]))
              => ~ShapeRefused(config.input[i].name)
       /\ lErr' = NoError =>
            /\ \A i \in DOMAIN config.output :
                 config.output[i].name \notin config.batch_output
                   => FindIOByName(tfModel.outputs, config.output[i].name).shape
                        = FullDims(config, config.output[i])
            /\ ControlsAreOne
            /\ DataTypesEqual
       /\ \A n \in config.batch_output : ~ShapeRefused(n)]_vars

\* C12: restricted to model tensors whose signature gives a shape (rank
\* above 0) and to inputs that are not ragged, a configured input passes
\* the shape check exactly when the model shape is more permissive than
\* the configured one, an accepted output not bound by batch_output and
\* every accepted control equal the configured shape dimension for
\* dimension, an output bound by batch_output is never refused for its
\* shape, and accepted data types are equal; a ragged input passes exactly
\* when the model shape is [-1], and a tensor of rank 0 is not
\* shape-checked.
C12_ShapeCheck ==
  [][SavedmodelValidated =>
       /\ \A i \in DOMAIN config.input :
            LET e == config.input[i]
                shape == FindIOByName(tfModel.inputs, e.name).shape
            IN /\ (Len(shape) # 0 /\ ~e.allow_ragged_batch
                     /\ MorePermissive(shape, FullDims(config, e)))
                    => ~ShapeRefused(e.name)
               /\ (Len(shape) # 0 /\ e.allow_ragged_batch
                     /\ shape = <<WILDCARD_DIM>>)
                    => ~ShapeRefused(e.name)
               /\ Len(shape) = 0 /\ e.name \in NamesOf(tfModel.inputs)
                    => ~ShapeRefused(e.name)
               /\ lErr' = NoError /\ Len(shape) # 0 =>
                    IF e.allow_ragged_batch
                      THEN shape = <<WILDCARD_DIM>>
                      ELSE MorePermissive(shape, FullDims(config, e))
       /\ lErr' = NoError =>
            /\ \A i \in DOMAIN config.output :
                 LET e == config.output[i]
                     shape == FindIOByName(tfModel.outputs, e.name).shape
                 IN (e.name \notin config.batch_output /\ Len(shape) # 0)
                      => shape = FullDims(config, e)
            /\ ControlsAreOne
            /\ DataTypesEqual
       /\ \A n \in config.batch_output : ~ShapeRefused(n)
       /\ \A i \in DOMAIN config.output :
            Len(FindIOByName(tfModel.outputs, config.output[i].name).shape) = 0
              => ~ShapeRefused(config.output[i].name)]_vars

\* an input whose model shape has WILDCARD where the configuration has a
\* fixed size was accepted
C12_Witness ==
  /\ lpc = "validated"
  /\ tfModel.platform = "savedmodel"
  /\ lErr = NoError
  /\ config.max_batch_size > 0
  /\ tfModel.inputs = <<IO("IN0", "FP32", <<WILDCARD_DIM, WILDCARD_DIM>>)>>
  /\ config.input = <<Entry("IN0", "TYPE_FP32", <<4>>)>>

\* tensor names the configuration gives a sequence control that the model
\* has no input for
MissingControls ==
  {c.name : c \in ConfiguredControls(config)} \ NamesOf(tfModel.inputs)

Completed == lpc \in {"set_config", "validate_config"}

\* a configured tensor with non-empty dims whose model tensor has as many
\* dimensions as it has dims: its leading dimension is no batch dimension
HintsNoBatching(ios, entries) ==
  \E i \in DOMAIN entries :
    /\ entries[i].name \in NamesOf(ios)
    /\ Len(HintDims(entries[i])) # 0
    /\ Len(FindIOByName(ios, entries[i].name).shape) # Len(HintDims(entries[i])) + 1

\* what a successful auto-complete of repoConfig determined about batching
DeterminedSupported ==
  /\ SigSupportsBatch(tfModel)
  /\ ~HintsNoBatching(tfModel.inputs, repoConfig.input)
  /\ ~HintsNoBatching(tfModel.outputs, repoConfig.output)

C15_DefaultIsFour ==
  (lpc # "backend" /\ ~cmdline.present) => default_max_batch_size_ = 4

\* C16: a successful auto-complete has added a default dynamic_batching
\* entry exactly when the resulting max_batch_size is above 1 and the
\* configuration had neither sequence_batching nor dynamic_batching; with
\* max_batch_size 0 or 1 the schedulers are as they were, and an existing
\* sequence_batching or dynamic_batching entry is never changed.
C16_DynamicBatching ==
  Completed =>
    /\ config.dynamic_batching = "default" <=>
         /\ config.max_batch_size > 1
         /\ ~repoConfig.sequence_batching.present
         /\ repoConfig.dynamic_batching = "none"
    /\ config.max_batch_size <= 1
         => config.dynamic_batching = repoConfig.dynamic_batching
    /\ config.sequence_batching = repoConfig.sequence_batching
    /\ repoConfig.dynamic_batching # "none"
         => config.dynamic_batching = repoConfig.dynamic_batching

\* a configuration without scheduler and max_batch_size was completed to
\* max_batch_size 4 with the default dynamic_batching entry
C16_Witness ==
  /\ Completed
  /\ repoConfig.max_batch_size = 0
  /\ repoConfig.dynamic_batching = "none"
  /\ ~repoConfig.sequence_batching.present
  /\ config.max_batch_size = 4
  /\ config.dynamic_batching = "default"

\* the dims the model shape may give an entry: the shape without its leading
\* dimension when the completed configuration batches, the whole shape when
\* the model has no batch dimension, and either when the model has one and
\* the completed max_batch_size is 0
ModelDims(io) ==
  IF Len(io.shape) = 0 THEN {io.shape}
  ELSE IF config.max_batch_size > 0 THEN {Tail(io.shape)}
  ELSE IF SigSupportsBatch(tfModel) THEN {io.shape, Tail(io.shape)}
  ELSE {io.shape}

\* e is the entry the claim describes for the model tensor io
IsCompletionOf(e, io) ==
  /\ e.name = io.name
  /\ e.data_type = ConvertToModelConfigString(io.data_type)
  /\ e.has_dims
  /\ \E d \in ModelDims(io) :
       IF Len(d) # 0
         THEN e.dims = d /\ ~e.has_reshape
         ELSE e.has_reshape /\ Len(e.dims) # 0

\* when the list before has no entry (absent or empty), every tensor of ios
\* has exactly one entry in after, the one the claim describes
MissingCompleted(ios, before, after) ==
  \A k \in DOMAIN ios :
    Len(before) = 0 =>
      /\ Cardinality({i \in DOMAIN after : after[i].name = ios[k].name}) = 1
      /\ \A i \in DOMAIN after :
           after[i].name = ios[k].name => IsCompletionOf(after[i], ios[k])

\* C17: after a successful auto-complete every model input and output that
\* had no configuration entry has exactly one, with the tensor's name, the
\* mapped data type and the model shape without the batch dimension as
\* dims (dims non-empty and a reshape of [1] where those would be empty),
\* whether the list was absent or empty and however many tensors the model
\* has.
C17_MissingEntriesAdded ==
  Completed =>
    /\ MissingCompleted(tfModel.inputs, repoConfig.input, config.input)
    /\ MissingCompleted(tfModel.outputs, repoConfig.output, config.output)

\* the completion pass ran on a SavedModel that TensorFlow could load, and
\* its batching step succeeded
IOCompletionRan ==
  /\ lpc \in {"set_config", "validate_config", "failed"}
  /\ tfModel.platform = "savedmodel"
  /\ lErr.what \notin {"tensorflow_load", "set_config",
                       "signature_no_batching", "contradicting_hints"}

\* whether the pass treats the model as batching
BatchingEnabled ==
  FixBatchingSupport(tfModel, repoConfig,
                     default_max_batch_size_).model_support_batching_

\* some tensor of ios has an entry in list whose dims count is not the
\* tensor's rank without the batch dimension
OwnDimsCountDiffers(ios, list) ==
  \E k \in DOMAIN ios : \E i \in DOMAIN list :
    /\ list[i].name = ios[k].name
    /\ Len(IF list[i].has_dims THEN list[i].dims ELSE <<>>)
         # Len(ios[k].shape) - (IF BatchingEnabled THEN 1 ELSE 0)

\* both lists of the configuration have entries and no model tensor is of
\* rank 0, so that the pass only checks entries
OnlyChecksEntries ==
  /\ Len(repoConfig.input) > 0 /\ Len(repoConfig.output) > 0
  /\ \A k \in DOMAIN tfModel.inputs : Len(tfModel.inputs[k].shape) > 0
  /\ \A k \in DOMAIN tfModel.outputs : Len(tfModel.outputs[k].shape) > 0

\* C18: where every list has entries, the completion pass leaves the
\* entries as they are and fails exactly when some model tensor's own
\* entry has a dims count different from the tensor's rank minus 1
\* (batching) or minus 0 (no batching); entries of other tensors and model
\* outputs without an entry do not make it fail.
C18_OwnEntryDecides ==
  (IOCompletionRan /\ OnlyChecksEntries) =>
    /\ config.input = repoConfig.input
    /\ config.output = repoConfig.output
    /\ (lErr # NoError) <=>
         \/ OwnDimsCountDiffers(tfModel.inputs, repoConfig.input)
         \/ OwnDimsCountDiffers(tfModel.outputs, repoConfig.output)

\* the configuration of the repository already has what the completion
\* pass would decide: a max_batch_size that agrees with the signature, a
\* scheduler where one would be added, and an entry for every model tensor
\* whose dims count is the tensor's rank without the batch dimension
CompleteAndConsistent ==
  /\ tfModel.platform = "savedmodel"
  /\ IF SigSupportsBatch(tfModel)
       THEN repoConfig.max_batch_size > 0
       ELSE repoConfig.max_batch_size = 0
  /\ repoConfig.max_batch_size > 1 =>
       \/ repoConfig.sequence_batching.present
       \/ repoConfig.dynamic_batching # "none"
  /\ \A k \in DOMAIN tfModel.inputs : \E i \in DOMAIN repoConfig.input :
       /\ repoConfig.input[i].name = tfModel.inputs[k].name
       /\ repoConfig.input[i].has_dims
  /\ \A k \in DOMAIN tfModel.outputs : \E i \in DOMAIN repoConfig.output :
       /\ repoConfig.output[i].name = tfModel.outputs[k].name
       /\ repoConfig.output[i].has_dims
  /\ ~OwnDimsCountDiffers(tfModel.inputs, repoConfig.input)
  /\ ~OwnDimsCountDiffers(tfModel.outputs, repoConfig.output)

\* C19: the completion pass on a configuration that is already complete
\* and consistent with the model signature succeeds and leaves the
\* configuration as it was.
C19_CompleteUnchanged ==
  (IOCompletionRan /\ CompleteAndConsistent) =>
    lErr = NoError /\ config = repoConfig

\* the errors of the completion pass
AutoCompleteErrors ==
  {"tensorflow_load", "signature_no_batching", "contradicting_hints",
   "rank_zero_no_dims", "rank_zero", "dims_count", "json_append"}

\* ModelState::Create returned an error of AutoCompleteConfig
AutoCompleteFailed ==
  auto_complete_config /\ lpc = "failed" /\ lErr.what \in AutoCompleteErrors

\* no instance of the model was created and none was attempted
NoInstance ==
  /\ \A i \in Instances : inst[i].st = "new" /\ loadCalls[i] = 0
  /\ \A d \in Devices : ~models_[d].present

\* C20: when a step of auto-complete fails, nothing was published with
\* TRITONBACKEND_ModelSetConfig, the model state is not registered and no
\* instance exists; a published configuration is the result of a whole
\* successful pass over the repository's configuration; and with
\* auto-complete asked for, registration and instances come only after
\* the publication.
C20_NoPartialCommit ==
  /\ AutoCompleteFailed => ~published.set /\ ~registered /\ NoInstance
  /\ published.set =>
       /\ auto_complete_config
       /\ lpc \notin {"create", "set_config"}
       /\ lpc = "validate_config" =>
            \E u \in {"error", "ignored"} :
              AutoCompleteConfig(tfModel, repoConfig, default_max_batch_size_,
                                 TRUE, u)
                = [err |-> NoError, cfg |-> published.cfg]
  /\ (auto_complete_config /\ (registered \/ ~NoInstance)) => published.set

\* the input completion failed after the batching step had added a
\* scheduler to the configuration in memory; nothing was published
C20_Witness ==
  /\ AutoCompleteFailed
  /\ lErr.what = "dims_count"
  /\ config # repoConfig
  /\ ~published.set /\ ~registered /\ NoInstance

\* what the claim says of an inexact comparison of the model shape m with
\* the configured dims dv
InexactAccepts(m, dv, supports_batching) ==
  LET full == IF supports_batching THEN <<WILDCARD_DIM>> \o dv ELSE dv
  IN /\ Len(m) = Len(full)
     /\ supports_batching => m[1] = WILDCARD_DIM
     /\ \A i \in 1..Len(m) : m[i] # WILDCARD_DIM => m[i] = full[i]

\* C21: CompareDims with compare_exact = false succeeds exactly when the
\* ranks are equal (the batch dimension prepended to the configured dims
\* when supports_batching, the model's first dimension then being
\* WILDCARD) and every model dimension that is not WILDCARD equals the
\* configured one.
C21_InexactCompare ==
  lpc = "compared" =>
    (lErr = NoError <=>
       InexactAccepts(tfModel.inputs[1].shape, config.input[1].dims,
                      config.max_batch_size > 0))

\* with batching, a model WILDCARD after the batch dimension accepted the
\* configured size 4
C21_Witness ==
  /\ lpc = "compared"
  /\ tfModel.inputs[1].shape = <<WILDCARD_DIM, WILDCARD_DIM>>
  /\ config.input[1].dims = <<4>>
  /\ config.max_batch_size > 0
  /\ lErr = NoError

\* every input and output of the model has a rank of at least 1 and a
\* WILDCARD leading dimension
EveryTensorBatches ==
  /\ \A k \in DOMAIN tfModel.inputs :
       /\ Len(tfModel.inputs[k].shape) >= 1
       /\ tfModel.inputs[k].shape[1] = WILDCARD_DIM
  /\ \A k \in DOMAIN tfModel.outputs :
       /\ Len(tfModel.outputs[k].shape) >= 1
       /\ tfModel.outputs[k].shape[1] = WILDCARD_DIM

\* C22: ModelSupportsBatch answers true only if every input and output of
\* the model has rank at least 1 and a WILDCARD leading dimension (one
\* tensor of rank 0 or with a fixed leading dimension makes it false), and
\* its answer is the one of the batching test of auto-complete on the
\* same signature.
C22_ModelSupportsBatch ==
  lpc = "answered" =>
    /\ lErr = NoError => EveryTensorBatches
    /\ (lErr = NoError) <=> SigSupportsBatch(tfModel)

\* a step leaves alone every request whose response is null: nothing is
\* put in its response and nothing is sent for it
NullResponsesSkipped ==
  \A i \in Reqs :
    responses[i] = "null" =>
      /\ responses'[i] = "null"
      /\ respOut'[i] = respOut[i]
      /\ sent'[i] = sent[i]

\* C23: once the response of a request has been failed and set to null,
\* no later step of the cycle creates an output, asks for an output buffer,
\* copies output data or sends a response for it, the remaining steps for
\* the output whose creation failed included: no step uses the output of a
\* response that is null.
C23_FailedRequestSkipped ==
  /\ [][NullResponsesSkipped]_vars
  /\ [](pc # "crashed")

\* every input of requests[0] and every batch input has its tensor
InputsAssembled ==
  /\ input_idx = Len(inTypes)
  /\ batch_idx = nBatchInputs
  /\ Len(input_tensors) = Len(inTypes) + nBatchInputs

MissingInput == {i \in Reqs : payloadKind[i] = "missing"}

\* C25: the tensor created for a ragged input has the shape [T], T the sum
\* over the requests of the cycle of the request's element count for the
\* input; a request without the input adds 0 to T and has its response
\* failed, and the cycle goes on for the others.
C25_RaggedShape ==
  /\ pc # "crashed"
  /\ (pc \notin {"idle", "batch_size", "responses", "inputs"} /\ outcome = "accepted"
      /\ Len(input_tensors) >= 1) =>
       /\ input_tensors[1].shape =
            <<SumLeading([i \in Reqs |->
                            [k |-> IF i \in MissingInput THEN 0
                                   ELSE GetElementCount(ReqShape(i))]],
                         request_count)>>
       /\ \A i \in MissingInput : responses[i] # "live"

\* the content is the serialization of exactly the declared number of
\* elements
ContentAsDeclared ==
  /\ sCnt <= Len(sElems)
  /\ sBytes = SerializeFrom(sElems, 0, sCnt)

\* C26: when the BYTES content of a request holds fewer or more elements
\* than the declared count, or a truncated element, the request gets an
\* error and, when SetStringInputTensor returns, every element of the
\* request's span of the batched tensor has been set and nothing outside
\* the span has been written, also when the response of the request was
\* null already.
C26_SpanFilled ==
  (sPc = "parsed" /\ ~ContentAsDeclared) =>
    /\ sResp => sRes.err # "none" /\ sRes.sent
    /\ ~sRes.resp
    /\ \A e \in 1..Len(sRes.t.e) :
         (sOff < e /\ e <= sOff + sCnt) <=> sRes.t.e[e] # UNSET
    /\ ~sRes.t.oob

\* number of elements of the output that belong to the requests before i
ElementsBefore(i) ==
  SumLeading([j \in Reqs |-> [k |-> GetElementCount(ReqShape(j))]], i - 1)

\* the BYTES output OUT0 has been distributed
Out0Distributed ==
  \E x \in 1..out_idx : output_tensors[x].name = "OUT0"

C28_GetModel ==
  [][\A i \in Instances :
       (inst[i].st = "new" /\ inst'[i].st = "ok") =>
         LET d == inst'[i].dev
         IN /\ IF models_[d].present /\ models_[d].first < max_session_share_count_
                 THEN /\ inst'[i].model_ = models_[d].second
                      /\ models_'[d] = [models_[d] EXCEPT !.first = @ + 1]
                      /\ loaded' = loaded
                      /\ loadCalls' = loadCalls
                 ELSE /\ loaded' = loaded + 1
                      /\ loadCalls'[i] = loadCalls[i] + 1
                      /\ inst'[i].model_ = loaded'
                      /\ \A j \in Instances \ {i} : inst[j].model_ # loaded'
                      /\ models_'[d] = [present |-> TRUE, first |-> 1,
                                        second |-> loaded']
            /\ \A e \in Devices \ {d} : models_'[e] = models_[e]
            /\ \A j \in Instances \ {i} : inst'[j] = inst[j]]_vars

\* a full entry was replaced: two instances share the replaced handle and a
\* third holds the handle of the entry that took its place
C28_Witness ==
  \E i, j, k \in Instances :
    /\ i # j
    /\ inst[i].st = "ok" /\ inst[j].st = "ok" /\ inst[k].st = "ok"
    /\ inst[i].dev = inst[k].dev /\ inst[j].dev = inst[k].dev
    /\ inst[i].model_ = inst[j].model_
    /\ inst[k].model_ # inst[i].model_
    /\ models_[inst[k].dev] = [present |-> TRUE, first |-> 1,
                               second |-> inst[k].model_]

\* the shape the list after of a validated SavedModel has for tensor k of
\* the list before, given the configuration entries of the list
BackFilled(before, after, entries) ==
  \A k \in DOMAIN before :
    IF Len(before[k].shape) = 0 /\ (\E i \in DOMAIN entries :
                                      entries[i].name = before[k].name)
      THEN \E i \in DOMAIN entries :
             /\ entries[i].name = before[k].name
             /\ after[k].shape =
                  BatchedShape(config.max_batch_size, ConfiguredDims(entries[i]))
      ELSE after[k] = before[k]

\* C29: after the validation of a SavedModel succeeds, every configured
\* input and output of model rank 0 has the configured dims as its shape,
\* behind a leading WILDCARD when max_batch_size > 0; the shape of a tensor
\* of another rank is not modified, and a shape is filled once only.
C29_BackFill ==
  [][/\ (/\ lpc = "created" /\ lpc' = "validated"
         /\ tfModel.platform = "savedmodel" /\ lErr' = NoError) =>
          /\ BackFilled(tfModel.inputs, tfModel'.inputs, config.input)
          /\ BackFilled(tfModel.outputs, tfModel'.outputs, config.output)
     /\ lpc = "validated" => tfModel' = tfModel]_vars

\* every tensor of the signature has a leading WILDCARD dimension
AllLeadingWildcard(tf) ==
  \A ios \in {tf.inputs, tf.outputs} : \A k \in DOMAIN ios :
    Len(ios[k].shape) >= 1 /\ ios[k].shape[1] = WILDCARD_DIM

\* the differences rank - dims count of the configured tensors that name
\* a tensor of the model in their list and whose configured dims (the
\* reshape when there is one) satisfy keep
RankMinusDims(keep(_)) ==
  {Len(tfModel.inputs[p[1]].shape) - Len(ConfiguredDims(config.input[p[2]])) :
     p \in {p \in (DOMAIN tfModel.inputs) \X (DOMAIN config.input) :
              /\ tfModel.inputs[p[1]].name = config.input[p[2]].name
              /\ keep(config.input[p[2]])}}
  \cup
  {Len(tfModel.outputs[p[1]].shape) - Len(ConfiguredDims(config.output[p[2]])) :
     p \in {p \in (DOMAIN tfModel.outputs) \X (DOMAIN config.output) :
              /\ tfModel.outputs[p[1]].name = config.output[p[2]].name
              /\ keep(config.output[p[2]])}}

\* of the tensors that give dims, empty or not
ConfiguredRankMinusDims ==
  RankMinusDims(LAMBDA e : e.has_dims \/ e.has_reshape)

\* of the tensors whose dims are not empty: those that give a hint
HintingRankMinusDims ==
  RankMinusDims(LAMBDA e : Len(ConfiguredDims(e)) # 0)

BatchingErrors ==
  {Err("INTERNAL", "signature_no_batching", ""),
   Err("INTERNAL", "contradicting_hints", "")}

\* C30: in the auto-complete of a SavedModel configuration, a positive
\* max_batch_size with a model tensor that lacks a leading WILDCARD
\* dimension fails as incompatible; with max_batch_size 0 and a leading
\* WILDCARD on every model tensor, batching is taken as disabled when the
\* dims counts of the configured tensors equal the model ranks, as enabled
\* when they equal the ranks minus 1, and the completion fails when one
\* configured tensor hints at batching and another at none, in either
\* order of the two.
C30_BatchingInferred ==
  [][(/\ lpc = "create" /\ lpc' # "create"
      /\ tfModel.platform = "savedmodel"
      /\ lErr' # Err("INTERNAL", "tensorflow_load", "")) =>
       /\ (config.max_batch_size > 0 /\ ~AllLeadingWildcard(tfModel)) =>
            /\ lErr' = Err("INTERNAL", "signature_no_batching", "")
            /\ lpc' = "failed"
       /\ (config.max_batch_size = 0 /\ AllLeadingWildcard(tfModel)) =>
            /\ ({0, 1} \subseteq HintingRankMinusDims) =>
                 /\ lErr' = Err("INTERNAL", "contradicting_hints", "")
                 /\ lpc' = "failed"
            /\ ConfiguredRankMinusDims = {0} =>
                 /\ lErr' \notin BatchingErrors
                 /\ config'.max_batch_size = 0
            /\ ConfiguredRankMinusDims = {1} =>
                 /\ lErr' \notin BatchingErrors
                 /\ lErr' = NoError =>
                      config'.max_batch_size = Max(default_max_batch_size_, 0)]_vars

\* the completion failed on an output that hints at batching listed after
\* an input that hints at none
C30_Witness ==
  /\ lpc = "failed"
  /\ lErr = Err("INTERNAL", "contradicting_hints", "")
  /\ config.max_batch_size = 0
  /\ AllLeadingWildcard(tfModel)
  /\ \E i \in DOMAIN config.input, k \in DOMAIN tfModel.inputs :
       /\ config.input[i].name = tfModel.inputs[k].name
       /\ Len(config.input[i].dims) = Len(tfModel.inputs[k].shape)
  /\ \E i \in DOMAIN config.output, k \in DOMAIN tfModel.outputs :
       /\ config.output[i].name = tfModel.outputs[k].name
       /\ Len(config.output[i].dims) = Len(tfModel.outputs[k].shape) - 1

====
